---- MODULE Spec2Model ----
(***************************************************************************)
(* A model of the linerafront browser client: the memoized bootstrap of    *)
(* the connection handle (src/linera/lineraWallet.ts and its two other     *)
(* revisions, src/linera/lineraClient.ts), the GraphQL transport and the   *)
(* mutation-then-refetch wrappers of src/linera/pokerApi.ts, and the       *)
(* acknowledgement normalisation helpers.                                  *)
(*                                                                         *)
(* The browser runs one event loop: every action below is one task or      *)
(* microtask, i.e. the code between two suspension points.                 *)
(***************************************************************************)
EXTENDS Integers, Sequences, FiniteSets, TLC

VARIABLES
  build,            \* which revision of lineraWallet.ts is bundled
  backendPromise,   \* lineraWallet.ts: let backendPromise (0 = null)
  attempts,         \* every createBackend() invocation so far
  nAttempts,        \* how many createBackend() invocations were started
  callers,          \* the code awaiting getBackend()
  \* ---- lineraClient.ts and LandingPage.tsx
  appId,                 \* whether VITE_LINERA_APP_ID is set
  wasmInitPromise,       \* lineraClient.ts: let wasmInitPromise
  clientPromise,         \* lineraClient.ts: let clientPromise
  clientBackendPromise,  \* lineraClient.ts: let backendPromise
  clientStep,            \* the external call the bootstrap is awaiting
  clientErr,             \* the error clientBackendPromise rejected with
  clientStarts,          \* how often getBackend started its bootstrap
  landing,               \* LandingPage: its state and pending handlers
  gqlCalls,              \* lineraClient.ts: the gql() calls awaiting getBackend
  route,                 \* the page shown
  \* ---- pokerApi.ts: one call of extractAckFromResponse
  ackIn,                 \* its arguments: data, fieldNames, context
  ackOut,                \* the MutationAck it returned
  ackPc,                 \* "ready" before the call, "done" after it
  \* ---- pokerApi.ts: the transport and the wrappers around a mutation
  accessor,              \* the module whose getBackend hands out the handle
  backendReady,          \* getBackend's memo holds a fulfilled promise
  proc,                  \* the wrapper invocations
  inflight,              \* the requests handed to backend.query, unanswered
  \* ---- one call of a function of pokerApi.ts or cardUtils.ts
  fnArgs,                \* the arguments of the call
  fnResult,              \* what the call returned or threw
  fnLocals,              \* the local variables of a call that loops
  fnPc,                  \* "ready" before the call, "done" after it; in
                         \* between, the loop the call is in
  \* ---- TablePage.tsx
  devMode,               \* DEV_MULTI_SEAT_MODE of config/devFlags
  uiView,                \* useState: the view model held, Null at first
  loading,               \* useState: loading
  commandLoading,        \* useState: commandLoading
  pageError,             \* useState: error, Null or the message shown
  betAmount,             \* useState: the text of the amount input
  nLoads,                \* how many loadTable calls were issued
  loadsInFlight,         \* the loadTable calls awaiting fetchTable
  command,               \* the handleSendAction call, where it waits
  lastEvent,             \* what the last step of the page did
  loadOrder              \* the newest loadTable call that delivered a view
                         \* model, and that view model

walletVars == <<build, backendPromise, attempts, nAttempts, callers>>

clientVars ==
  <<appId, wasmInitPromise, clientPromise, clientBackendPromise, clientStep,
    clientErr, clientStarts, landing, gqlCalls, route>>

ackVars == <<ackIn, ackOut, ackPc>>

apiVars == <<accessor, backendReady, proc, inflight>>

fnVars == <<fnArgs, fnResult, fnLocals, fnPc>>

pageVars ==
  <<devMode, uiView, loading, commandLoading, pageError, betAmount, nLoads,
    loadsInFlight, command, lastEvent, loadOrder>>

nonWalletVars == <<clientVars, ackVars, apiVars, fnVars, pageVars>>
nonClientVars == <<walletVars, ackVars, apiVars, fnVars, pageVars>>
nonAckVars == <<walletVars, clientVars, apiVars, fnVars, pageVars>>
nonApiVars == <<walletVars, clientVars, ackVars, fnVars, pageVars>>
nonFnVars == <<walletVars, clientVars, ackVars, apiVars, pageVars>>
nonPageVars == <<walletVars, clientVars, ackVars, apiVars, fnVars>>

vars == <<walletVars, clientVars, ackVars, apiVars, fnVars, pageVars>>

(***************************************************************************)
(* Bounds of the model.                                                    *)
(***************************************************************************)
MaxAttempts == 2
NCallers == 2
NWrapperCalls == 2

Callers == 1..NCallers
AttemptIds == 1..MaxAttempts

(***************************************************************************)
(* lineraWallet.ts: createBackend and withTimeout.                         *)
(***************************************************************************)

\* The three revisions of lineraWallet.ts in the repository.
Builds == {"lineraWallet.ts", "part_001:1-159", "part_001:161-306"}

\* The external sub-steps createBackend awaits, in order.  The revision at
\* part_001:76-135 has no initWallet() step.
SubSteps(b) ==
  IF b = "part_001:1-159"
    THEN <<"getLineraClient">>
    ELSE <<"initWallet", "getLineraClient">>

\* Whether createBackend passes the sub-step's promise through withTimeout.
\* The revision at part_001:219-282 awaits getLineraClient() bare.
HasTimeout(b, s) == ~(b = "part_001:161-306" /\ s = "getLineraClient")

\* The property names of the object createBackend returns.
BackendContextFields == {"client", "application", "appId"}

\* step is the index in SubSteps of the call being awaited, 0 when createBackend
\* awaits nothing (not started, returned or thrown).
NoAttempt ==
  [step |-> 0, timer |-> FALSE, cb |-> "none", err |-> "none",
   memo |-> "none", memoErr |-> "none"]

\* createBackend() up to its first await: the first sub-step is called and,
\* inside withTimeout, its timer armed.
StartCreateBackend ==
  [step |-> 1, timer |-> HasTimeout(build, SubSteps(build)[1]),
   cb |-> "pending", err |-> "none", memo |-> "pending", memoErr |-> "none"]

Awaiting(i, s) ==
  /\ attempts[i].cb = "pending"
  /\ attempts[i].step \in 1..Len(SubSteps(build))
  /\ SubSteps(build)[attempts[i].step] = s

\* createBackend's catch block: record the error and rethrow it.
Rethrow(i, e) ==
  [attempts EXCEPT ![i].cb = "rejected", ![i].err = e, ![i].timer = FALSE,
                   ![i].step = 0]

\* createBackend moves on to the following sub-step.
Advance(i) ==
  LET n == attempts[i].step + 1 IN
  [attempts EXCEPT ![i].step = n,
                   ![i].timer = HasTimeout(build, SubSteps(build)[n])]

NoResult == [k |-> "none", att |-> 0, err |-> "none"]

IdleCaller == [pc |-> "idle", att |-> 0, seen |-> 0, res |-> NoResult]

(***************************************************************************)
(* lineraWallet.ts: getBackend.                                            *)
(***************************************************************************)

\* A getBackend whose test looks for a ready backend instead of a promise.
NeedsNewAttemptUnlessReady ==
  \/ backendPromise = 0
  \/ attempts[backendPromise].memo # "fulfilled"

\* A getBackend that starts over as soon as createBackend has failed, before
\* the failure handler has run.
NeedsNewAttemptAfterReject ==
  \/ backendPromise = 0
  \/ attempts[backendPromise].cb = "rejected"

\* if (!backendPromise)
NeedsNewAttempt == backendPromise = 0

\* A failure handler that forgets to clear the memo.
MemoAfterFailureKept == backendPromise

\* backendPromise = null in the .catch handler: whatever the memo holds.
MemoAfterFailure == 0

\* A failure handler that swallows the error: no `throw e`.
HandlerOutcomeSwallowed(e) == [memo |-> "fulfilled", memoErr |-> "none"]

\* throw e in the .catch handler: the memoized promise rejects with the
\* error createBackend threw.
HandlerOutcome(e) == [memo |-> "rejected", memoErr |-> e]

\* What awaiting the memoized promise of attempt i yields.
Outcome(i) ==
  IF attempts[i].memo = "fulfilled"
    THEN [k |-> "handle", att |-> i, err |-> "none"]
    ELSE [k |-> "error", att |-> i, err |-> attempts[i].memoErr]

GetBackend(c) ==
  /\ callers[c].pc # "waiting"
  /\ IF NeedsNewAttempt
       THEN /\ nAttempts < MaxAttempts
            /\ nAttempts' = nAttempts + 1
            /\ attempts' = [attempts EXCEPT ![nAttempts + 1] = StartCreateBackend]
            /\ backendPromise' = nAttempts + 1
            /\ callers' = [callers EXCEPT ![c] =
                 [pc |-> "waiting", att |-> nAttempts + 1,
                  seen |-> backendPromise, res |-> NoResult]]
       ELSE /\ callers' = [callers EXCEPT ![c] =
                 [pc |-> "waiting", att |-> backendPromise,
                  seen |-> backendPromise, res |-> NoResult]]
            /\ UNCHANGED <<nAttempts, attempts, backendPromise>>
  /\ UNCHANGED <<build, nonWalletVars>>

\* initWallet() settles with a result; ok = false makes createBackend throw.
InitWalletResolves(i, ok) ==
  /\ Awaiting(i, "initWallet")
  /\ attempts' = IF ok THEN Advance(i) ELSE Rethrow(i, "initWallet not ok")
  /\ UNCHANGED <<build, backendPromise, nAttempts, callers, nonWalletVars>>

\* getLineraClient() settles with a client; the application is then bound
\* synchronously, which may throw.
GetLineraClientResolves(i, bound) ==
  /\ Awaiting(i, "getLineraClient")
  /\ attempts' =
       IF bound
         THEN [attempts EXCEPT ![i].cb = "fulfilled", ![i].timer = FALSE,
                               ![i].step = 0]
         ELSE Rethrow(i, "application binding threw")
  /\ UNCHANGED <<build, backendPromise, nAttempts, callers, nonWalletVars>>

\* The awaited external promise rejects.
SubStepRejects(i) ==
  /\ attempts[i].cb = "pending"
  /\ attempts[i].step \in 1..Len(SubSteps(build))
  /\ attempts' = Rethrow(i, "rejected")
  /\ UNCHANGED <<build, backendPromise, nAttempts, callers, nonWalletVars>>

\* withTimeout's timer fires before the awaited promise settled.
TimerFires(i) ==
  /\ attempts[i].cb = "pending"
  /\ attempts[i].timer
  /\ attempts' = Rethrow(i, "timeout")
  /\ UNCHANGED <<build, backendPromise, nAttempts, callers, nonWalletVars>>

\* The .catch handler getBackend attached to createBackend()'s promise.
CatchHandler(i) ==
  /\ attempts[i].cb = "rejected"
  /\ attempts[i].memo = "pending"
  /\ backendPromise' = MemoAfterFailure
  /\ attempts' = [attempts EXCEPT
       ![i].memo = HandlerOutcome(attempts[i].err).memo,
       ![i].memoErr = HandlerOutcome(attempts[i].err).memoErr]
  /\ UNCHANGED <<build, nAttempts, callers, nonWalletVars>>

\* createBackend() fulfilled: the promise .catch returned fulfils with it.
PassThrough(i) ==
  /\ attempts[i].cb = "fulfilled"
  /\ attempts[i].memo = "pending"
  /\ attempts' = [attempts EXCEPT ![i].memo = "fulfilled"]
  /\ UNCHANGED <<build, backendPromise, nAttempts, callers, nonWalletVars>>

\* The continuation of `await getBackend()` runs in caller c.
Observe(c) ==
  /\ callers[c].pc = "waiting"
  /\ attempts[callers[c].att].memo \in {"fulfilled", "rejected"}
  /\ callers' = [callers EXCEPT ![c].pc = "done",
                                ![c].res = Outcome(callers[c].att)]
  /\ UNCHANGED <<build, backendPromise, attempts, nAttempts, nonWalletVars>>

(***************************************************************************)
(* JavaScript values, as JSON.parse produces them, and `undefined` for a   *)
(* property that is not there.  An object is a function from its own       *)
(* property names to values.                                               *)
(***************************************************************************)
Null == [t |-> "null"]
Undefined == [t |-> "undefined"]
\* Absent stands for a field an object drawn does not have.
Absent == [t |-> "absent"]
Bool(b) == [t |-> "boolean", b |-> b]
Str(x) == [t |-> "string", s |-> x]
Num(n) == [t |-> "number", n |-> n]
Obj(f) == [t |-> "object", f |-> f]
Arr(a) == [t |-> "array", a |-> a]
EmptyObj == Obj(<<>>)

\* raw !== null && typeof raw === "object" (an array is an object too)
IsObject(v) == v.t \in {"object", "array"}

\* obj[k], for the property names the code reads (none is an index or
\* "length", so an array has none of them)
Prop(v, k) ==
  IF v.t = "object" /\ k \in DOMAIN v.f THEN v.f[k] ELSE Undefined

\* Boolean(v)
Truthy(v) ==
  CASE v.t = "boolean" -> v.b
    [] v.t = "string" -> v.s # ""
    [] v.t = "number" -> v.n # 0
    [] v.t = "object" -> TRUE
    [] v.t = "array" -> TRUE
    [] OTHER -> FALSE

(***************************************************************************)
(* pokerApi.ts: normalizeAck and extractAckFromResponse.                   *)
(***************************************************************************)

\* A normalizeAck that takes a non-object acknowledgement for a failure.
NonObjectAckFailed(context) ==
  [ok |-> FALSE, message |-> context \o ": backend returned non-object ack"]

\* normalizeAck on something that is no object.
NonObjectAck(context) ==
  [ok |-> TRUE, message |-> context \o ": backend returned non-object ack"]

\* A chain that reads the truthiness of ok before a boolean success.
AckOkTruthyFirst(obj) ==
  LET ok == Prop(obj, "ok")
      success == Prop(obj, "success")
  IN  IF ok.t = "boolean" THEN ok.b
      ELSE IF ok.t \notin {"null", "undefined"} THEN Truthy(ok)
      ELSE IF success.t = "boolean" THEN success.b
      ELSE IF success.t \notin {"null", "undefined"} THEN Truthy(success)
      ELSE TRUE

\* The chain of tests that picks ok.
AckOk(obj) ==
  LET ok == Prop(obj, "ok")
      success == Prop(obj, "success")
  IN  IF ok.t = "boolean" THEN ok.b
      ELSE IF success.t = "boolean" THEN success.b
      ELSE IF ok.t \notin {"null", "undefined"} THEN Truthy(ok)
      ELSE IF success.t \notin {"null", "undefined"} THEN Truthy(success)
      ELSE TRUE

\* The tests that pick message.
AckMessage(obj) ==
  LET message == Prop(obj, "message")
      error == Prop(obj, "error")
  IN  IF message.t = "string" THEN message.s
      ELSE IF error.t = "string" THEN error.s
      ELSE ""

normalizeAck(raw, context) ==
  IF ~IsObject(raw)
    THEN NonObjectAck(context)
    ELSE [ok |-> AckOk(raw), message |-> AckMessage(raw)]

\* An acknowledgement lookup that takes a missing field for a failure.
AckFieldMissingStrict == [ok |-> FALSE, message |-> ""]

\* The result when no candidate field is in the data.
AckFieldMissing == [ok |-> TRUE, message |-> ""]

\* The result when the data is no object.
AckDataNotObject == [ok |-> TRUE, message |-> ""]

\* A presence test that takes a null value for an absent field.
HasFieldNotNull(obj, field) ==
  obj.t = "object" /\ field \in DOMAIN obj.f /\ obj.f[field].t # "null"

\* Object.prototype.hasOwnProperty.call(obj, field)
HasField(obj, field) == obj.t = "object" /\ field \in DOMAIN obj.f

\* The for loop over fieldNames, returning at the first field found.
RECURSIVE AckOfFirstField(_, _, _)
AckOfFirstField(obj, fieldNames, context) ==
  IF fieldNames = <<>>
    THEN AckFieldMissing
    ELSE IF HasField(obj, Head(fieldNames))
           THEN normalizeAck(obj.f[Head(fieldNames)], context)
           ELSE AckOfFirstField(obj, Tail(fieldNames), context)

extractAckFromResponse(data, fieldNames, context) ==
  IF ~IsObject(data)
    THEN AckDataNotObject
    ELSE AckOfFirstField(data, fieldNames, context)

\* The mutations whose acknowledgement is looked up, with the candidate
\* field names each passes, in the order it passes them, and the message
\* its wrapper throws for an acknowledgement without one.
AckOps ==
  {"playerAction", "createTournament", "registerPlayerToTournament",
   "unregisterPlayerFromTournament", "startTournament",
   "advanceTournamentLevel", "closeTournament"}

FieldNames(op) ==
  CASE op = "playerAction" -> <<"playerAction", "player_action">>
    [] op = "createTournament" -> <<"createTournament", "create_tournament">>
    [] op = "registerPlayerToTournament" ->
         <<"registerPlayerToTournament", "register_player_to_tournament">>
    [] op = "unregisterPlayerFromTournament" ->
         <<"unregisterPlayerFromTournament",
           "unregister_player_from_tournament">>
    [] op = "startTournament" -> <<"startTournament", "start_tournament">>
    [] op = "advanceTournamentLevel" ->
         <<"advanceTournamentLevel", "advance_tournament_level">>
    [] op = "closeTournament" -> <<"closeTournament", "close_tournament">>

\* Raw acknowledgement values a service may send under a field.
RawAcks ==
  { Null, Str("oops"), Bool(FALSE), EmptyObj,
    Obj([ok |-> Bool(TRUE), message |-> Str("")]),
    Obj([ok |-> Bool(FALSE), message |-> Str("bad seat")]),
    Obj([ok |-> Bool(FALSE), message |-> Str("")]),
    Obj([success |-> Bool(FALSE), error |-> Str("bad seat")]) }

\* The objects with some of the given fields, each holding a raw
\* acknowledgement, and perhaps a field that is no candidate.
Payloads(fieldNames) ==
  LET names == {fieldNames[i] : i \in 1..Len(fieldNames)} \cup {"__typename"}
  IN  UNION { { Obj(f) : f \in [D -> RawAcks] } : D \in SUBSET names }

\* What callServiceGraphQL may hand to extractAckFromResponse.
AckInputs ==
  { [data |-> d, fieldNames |-> FieldNames(op), context |-> op] :
      op \in {"playerAction", "createTournament"},
      d \in {Null, Str("oops")} }
  \cup
  UNION { { [data |-> d, fieldNames |-> FieldNames(op), context |-> op] :
              d \in Payloads(FieldNames(op)) } :
          op \in {"playerAction", "createTournament"} }

NoAck == [ok |-> FALSE, message |-> "(not called)"]

\* extractAckFromResponse runs on the arguments drawn.
ExtractAck ==
  /\ ackPc = "ready"
  /\ ackOut' = extractAckFromResponse(ackIn.data, ackIn.fieldNames,
                                      ackIn.context)
  /\ ackPc' = "done"
  /\ UNCHANGED <<ackIn, nonAckVars>>

\* The values a field of a raw acknowledgement is drawn from.
FlagValues ==
  {Absent, Null, Bool(TRUE), Bool(FALSE), Num(0), Num(1), Str(""), Str("yes")}
TextValues == {Absent, Null, Str(""), Str("bad seat"), Num(7)}

\* The object with the given fields, those drawn "absent" left out.
RawAckObject(ok, success, message, error) ==
  LET all == [ok |-> ok, success |-> success, message |-> message,
              error |-> error]
      present == {k \in DOMAIN all : all[k] # Absent}
  IN  Obj([k \in present |-> all[k]])

RawAckObjects ==
  { RawAckObject(ok, success, message, error) :
      ok \in FlagValues, success \in FlagValues,
      message \in TextValues, error \in TextValues }

NonObjects ==
  {Null, Undefined, Str(""), Str("oops"), Num(0), Num(1), Bool(TRUE),
   Bool(FALSE)}

NormalizeAckInputs ==
  { [fn |-> "normalizeAck", raw |-> raw, context |-> context] :
      raw \in RawAckObjects \cup NonObjects \cup {Arr(<<>>)},
      context \in {"playerAction", "createTournament"} }

\* normalizeAck runs on the arguments drawn.
NormalizeAck ==
  /\ fnPc = "ready"
  /\ fnArgs.fn = "normalizeAck"
  /\ fnResult' = [k |-> "return",
                  v |-> normalizeAck(fnArgs.raw, fnArgs.context)]
  /\ fnPc' = "done"
  /\ UNCHANGED <<fnArgs, fnLocals, nonFnVars>>

(***************************************************************************)
(* cardUtils.ts: computeBlindSeats.                                        *)
(***************************************************************************)
MaxSeats == 6

\* What (s + 1) % 0 gives.
NaN == [t |-> "NaN"]

\* A nextSeat that does not wrap around the table.
NextSeatNoWrap(s, maxSeats) == IF s.t = "NaN" THEN NaN ELSE Num(s.n + 1)

\* const nextSeat = (s) => (s + 1) % maxSeats
nextSeat(s, maxSeats) ==
  IF s.t = "NaN" \/ maxSeats = 0 THEN NaN ELSE Num((s.n + 1) % maxSeats)

\* Loops that stop one probe short of a lap, or go one probe past it.
ProbeLimitShort(maxSeats) == maxSeats - 1
ProbeLimitLong(maxSeats) == maxSeats + 1

\* for (let i = 0; i < maxSeats; i += 1)
ProbeLimit(maxSeats) == maxSeats

\* A second loop that starts at the small blind's own seat.
BigBlindStartAtSmall(sb, maxSeats) == sb

\* current = nextSeat(sb) before the second loop
BigBlindStart(sb, maxSeats) == nextSeat(sb, maxSeats)

\* seatsOccupied.has(current)
Occupied(current, seats) == current.t = "number" /\ current.n \in seats

\* The arguments drawn: the dealer button (null, or a seat that may lie past
\* the table), the seat indices of the players (which may lie past the table
\* too) and the number of seats.
BlindInputs ==
  { [fn |-> "computeBlindSeats", dealerSeat |-> dealer, seats |-> seats,
     maxSeats |-> maxSeats] :
      dealer \in {Null} \cup {Num(n) : n \in 0..MaxSeats},
      seats \in SUBSET (0..MaxSeats),
      maxSeats \in 0..MaxSeats }

BlindResult(sb, bb) ==
  [k |-> "return", v |-> [smallBlindSeat |-> sb, bigBlindSeat |-> bb]]

\* The call up to its first loop, or its early return.
ComputeBlindSeats ==
  /\ fnPc = "ready"
  /\ fnArgs.fn = "computeBlindSeats"
  /\ IF fnArgs.dealerSeat = Null \/ fnArgs.seats = {}
       THEN /\ fnResult' = BlindResult(Null, Null)
            /\ fnPc' = "done"
            /\ UNCHANGED fnLocals
       ELSE /\ fnLocals' = [current |-> nextSeat(fnArgs.dealerSeat, fnArgs.maxSeats),
                            i |-> 0, sb |-> Null, bb |-> Null,
                            sbProbes |-> 0, bbProbes |-> 0]
            /\ fnPc' = "small blind"
            /\ UNCHANGED fnResult
  /\ UNCHANGED <<fnArgs, nonFnVars>>

\* The statements after the first loop.
AfterSmallBlind(l) ==
  IF l.sb # Null
    THEN /\ fnLocals' = [l EXCEPT !.current = BigBlindStart(l.sb, fnArgs.maxSeats),
                                  !.i = 0]
         /\ fnPc' = "big blind"
         /\ UNCHANGED fnResult
    ELSE /\ fnLocals' = l
         /\ fnResult' = BlindResult(l.sb, l.bb)
         /\ fnPc' = "done"

\* One turn of the first loop: its test, and its body when the test holds.
SmallBlindProbe ==
  /\ fnPc = "small blind"
  /\ IF fnLocals.i < ProbeLimit(fnArgs.maxSeats)
       THEN LET l == [fnLocals EXCEPT !.sbProbes = @ + 1]
            IN  IF Occupied(l.current, fnArgs.seats)
                  THEN AfterSmallBlind([l EXCEPT !.sb = l.current])
                  ELSE /\ fnLocals' =
                            [l EXCEPT !.current = nextSeat(l.current, fnArgs.maxSeats),
                                      !.i = @ + 1]
                       /\ UNCHANGED <<fnResult, fnPc>>
       ELSE AfterSmallBlind(fnLocals)
  /\ UNCHANGED <<fnArgs, nonFnVars>>

\* One turn of the second loop.
BigBlindProbe ==
  /\ fnPc = "big blind"
  /\ IF fnLocals.i < ProbeLimit(fnArgs.maxSeats)
       THEN LET l == [fnLocals EXCEPT !.bbProbes = @ + 1]
            IN  IF Occupied(l.current, fnArgs.seats)
                  THEN /\ fnLocals' = [l EXCEPT !.bb = l.current]
                       /\ fnResult' = BlindResult(l.sb, l.current)
                       /\ fnPc' = "done"
                  ELSE /\ fnLocals' =
                            [l EXCEPT !.current = nextSeat(l.current, fnArgs.maxSeats),
                                      !.i = @ + 1]
                       /\ UNCHANGED <<fnResult, fnPc>>
       ELSE /\ fnResult' = BlindResult(fnLocals.sb, fnLocals.bb)
            /\ fnPc' = "done"
            /\ UNCHANGED fnLocals
  /\ UNCHANGED <<fnArgs, nonFnVars>>

(***************************************************************************)
(* cardUtils.ts: mapSuit, mapRank, mapCard, mapPlayer and mapTableToUi.    *)
(***************************************************************************)
MaxPlayers == 4

mapSuit(suit) ==
  CASE suit = "Clubs" -> "clubs"
    [] suit = "Diamonds" -> "diamonds"
    [] suit = "Hearts" -> "hearts"
    [] suit = "Spades" -> "spades"
    [] OTHER -> "spades"

mapRank(rank) ==
  CASE rank = "Two" -> "2" [] rank = "Three" -> "3" [] rank = "Four" -> "4"
    [] rank = "Five" -> "5" [] rank = "Six" -> "6" [] rank = "Seven" -> "7"
    [] rank = "Eight" -> "8" [] rank = "Nine" -> "9" [] rank = "Ten" -> "10"
    [] rank = "Jack" -> "J" [] rank = "Queen" -> "Q" [] rank = "King" -> "K"
    [] rank = "Ace" -> "A"
    [] OTHER -> "A"

mapCard(card, hidden) ==
  [suit |-> mapSuit(card.suit), rank |-> mapRank(card.rank), hidden |-> hidden]

\* String(n) for a natural number: its decimal digits.
Digits == <<"0", "1", "2", "3", "4", "5", "6", "7", "8", "9">>

RECURSIVE String(_)
String(n) ==
  IF n < 10 THEN Digits[n + 1]
  ELSE String(n \div 10) \o Digits[(n % 10) + 1]

\* status.toLowerCase().includes(part), for the statuses drawn.
StatusIncludes(status, part) ==
  CASE part = "fold" -> status \in {"Folded", "FOLD"}
    [] part = "allin" -> status \in {"AllIn"}
    [] part = "all_in" -> status \in {"All_In"}
    [] OTHER -> FALSE

deriveStatusFlags(status) ==
  [isFolded |-> StatusIncludes(status, "fold"),
   isAllIn |-> StatusIncludes(status, "allin")
                 \/ StatusIncludes(status, "all_in")]

\* A mapPlayer that takes a missing viewer id for the hero's.
IsHeroWhenNoViewer(p, heroPlayerId) ==
  heroPlayerId = Undefined \/ Str(String(p.player_id)) = heroPlayerId

\* heroPlayerId !== undefined && String(p.player_id) === heroPlayerId
IsHero(p, heroPlayerId) ==
  heroPlayerId # Undefined /\ Str(String(p.player_id)) = heroPlayerId

\* The test of a seat against a seat that may be null.
IsSeat(seat, seatIndex) == seat # Null /\ Num(seatIndex) = seat

mapPlayer(p, dealerSeat, smallBlindSeat, bigBlindSeat, heroPlayerId) ==
  LET flags == deriveStatusFlags(p.status)
      isHero == IsHero(p, heroPlayerId)
  IN  [id |-> String(p.player_id),
       name |-> p.display_name,
       stack |-> p.stack,
       position |-> p.seat_index,
       cards |-> IF p.hole_cards = Null THEN Undefined
                 ELSE Arr([i \in 1..Len(p.hole_cards.a) |->
                             mapCard(p.hole_cards.a[i], ~isHero)]),
       isDealer |-> IsSeat(dealerSeat, p.seat_index),
       isSmallBlind |-> IsSeat(smallBlindSeat, p.seat_index),
       isBigBlind |-> IsSeat(bigBlindSeat, p.seat_index),
       isFolded |-> flags.isFolded,
       isAllIn |-> flags.isAllIn]

\* One loop of computeBlindSeats, from its turn i on: the seat it finds, or
\* null.
RECURSIVE FindOccupied(_, _, _, _)
FindOccupied(current, i, seats, maxSeats) ==
  IF i < ProbeLimit(maxSeats)
    THEN IF Occupied(current, seats) THEN current
         ELSE FindOccupied(nextSeat(current, maxSeats), i + 1, seats, maxSeats)
    ELSE Null

\* computeBlindSeats, as mapTableToUi calls it.
computeBlindSeats(dealerSeat, players, maxSeats) ==
  IF dealerSeat = Null \/ Len(players) = 0
    THEN [smallBlindSeat |-> Null, bigBlindSeat |-> Null]
    ELSE LET seats == {players[i].seat_index : i \in 1..Len(players)}
             sb == FindOccupied(nextSeat(dealerSeat, maxSeats), 0, seats,
                                maxSeats)
             bb == IF sb # Null
                     THEN FindOccupied(BigBlindStart(sb, maxSeats), 0, seats,
                                       maxSeats)
                     ELSE Null
         IN  [smallBlindSeat |-> sb, bigBlindSeat |-> bb]

\* A reduce that keeps the first player's bet.
ReduceFirst(players, n) == IF n = 0 THEN 0 ELSE players[1].current_bet

\* table.players.reduce((max, p) => p.current_bet > max ? p.current_bet : max, 0)
\* over the first n players.
RECURSIVE ReduceMax(_, _)
ReduceMax(players, n) ==
  IF n = 0 THEN 0
  ELSE LET max == ReduceMax(players, n - 1)
       IN  IF players[n].current_bet > max THEN players[n].current_bet ELSE max

\* A lookup that takes the first player, whatever the seat.
FindBySeatAny(players, seat) ==
  IF Len(players) = 0 THEN Undefined ELSE Num(players[1].player_id)

\* table.players.find((p) => p.seat_index === seat)?.player_id
FindBySeat(players, seat) ==
  LET found == {i \in 1..Len(players) : Num(players[i].seat_index) = seat}
  IN  IF found = {} THEN Undefined
      ELSE Num(players[CHOOSE i \in found : \A j \in found : i <= j].player_id)

\* current_actor_seat !== null ? String(find(...)?.player_id ?? "") : ""
CurrentPlayerId(table) ==
  IF table.current_actor_seat = Null THEN ""
  ELSE LET id == FindBySeat(table.players, table.current_actor_seat)
       IN  IF id = Undefined THEN "" ELSE String(id.n)

mapTableToUi(table, heroPlayerId) ==
  LET dealerSeat == table.dealer_button
      blinds == computeBlindSeats(dealerSeat, table.players, table.max_seats)
      players == [i \in 1..Len(table.players) |->
                    mapPlayer(table.players[i], dealerSeat,
                              blinds.smallBlindSeat, blinds.bigBlindSeat,
                              heroPlayerId)]
      communityCards == [i \in 1..Len(table.board) |->
                           mapCard(table.board[i], FALSE)]
  IN  [players |-> players,
       communityCards |-> communityCards,
       gameState |->
         [pot |-> table.total_pot,
          communityCards |-> communityCards,
          currentBet |-> ReduceMax(table.players, Len(table.players)),
          minimumRaise |-> table.big_blind * 2,
          boardTexture |-> table.street,
          currentPlayer |-> CurrentPlayerId(table),
          timeRemaining |-> 0,
          street |-> table.street]]

\* The snapshots drawn.
Card(rank, suit) == [rank |-> rank, suit |-> suit]

WirePlayers ==
  { [player_id |-> 1, display_name |-> "ann", seat_index |-> 0, stack |-> 900,
     current_bet |-> 0, status |-> "Active",
     hole_cards |-> Arr(<<Card("Ace", "Spades"), Card("Ten", "Hearts")>>)],
    [player_id |-> 2, display_name |-> "bob", seat_index |-> 1, stack |-> 0,
     current_bet |-> 50, status |-> "AllIn",
     hole_cards |-> Arr(<<Card("Two", "Clubs"), Card("King", "Diamonds")>>)],
    [player_id |-> 3, display_name |-> "cy", seat_index |-> 3, stack |-> 400,
     current_bet |-> 120, status |-> "Folded", hole_cards |-> Null],
    [player_id |-> 10, display_name |-> "di", seat_index |-> 5, stack |-> 70,
     current_bet |-> 0, status |-> "All_In",
     hole_cards |-> Arr(<<Card("Joker", "Stars")>>)] }

WireTables ==
  { [table_id |-> "t1", name |-> "main", max_seats |-> 6, small_blind |-> 10,
     big_blind |-> 20, ante |-> 0, street |-> street, dealer_button |-> dealer,
     total_pot |-> 170, board |-> board, players |-> players,
     hand_in_progress |-> TRUE, current_actor_seat |-> actor] :
      street \in {"Flop"},
      dealer \in {Null, Num(3)},
      board \in {<<>>, <<Card("Queen", "Hearts"), Card("Nine", "Clubs"),
                         Card("Three", "Spades")>>},
      players \in UNION {[1..n -> WirePlayers] : n \in 0..MaxPlayers},
      actor \in {Null, Num(0), Num(1), Num(4)} }

ViewerIds == {Undefined, Str("1"), Str("10"), Str("01")}

MapTableInputs ==
  { [fn |-> "mapTableToUi", table |-> table, heroPlayerId |-> hero] :
      table \in WireTables, hero \in ViewerIds }

\* A call that empties the board of the snapshot it was given.
TableAfterCallBoardTaken(table) == [table EXCEPT !.board = <<>>]

\* The snapshot object after a call of mapTableToUi: the function reads it
\* with map, reduce and find, and writes to none of its fields.
TableAfterCall(table) == table

\* mapTableToUi runs on the arguments drawn; the snapshot as it was before
\* the call is kept aside.
MapTableToUi ==
  /\ fnPc = "ready"
  /\ fnArgs.fn = "mapTableToUi"
  /\ fnResult' = [k |-> "return",
                  v |-> mapTableToUi(fnArgs.table, fnArgs.heroPlayerId)]
  /\ fnArgs' = [fnArgs EXCEPT !.table = TableAfterCall(fnArgs.table)]
  /\ fnLocals' = [current |-> Null, before |-> fnArgs.table]
  /\ fnPc' = "done"
  /\ UNCHANGED nonFnVars

\* mapTableToUi runs once more on the same snapshot object and viewer id.
MapTableToUiAgain ==
  /\ fnPc = "done"
  /\ fnArgs.fn = "mapTableToUi"
  /\ fnLocals' = [fnLocals EXCEPT !.current = Null] @@
                 [again |-> mapTableToUi(fnArgs.table, fnArgs.heroPlayerId)]
  /\ fnArgs' = [fnArgs EXCEPT !.table = TableAfterCall(fnArgs.table)]
  /\ fnPc' = "again"
  /\ UNCHANGED <<fnResult, nonFnVars>>

(***************************************************************************)
(* TablePage.handleSendAction: from the button pressed to the variables of *)
(* the PlayerAction mutation.                                              *)
(***************************************************************************)
Buttons == {"fold", "check_or_call", "bet", "raise"}

\* Number(betAmount), for the texts drawn.
Number(text) ==
  CASE text = "" -> Num(0)
    [] text = "0" -> Num(0)
    [] text = "50" -> Num(50)
    [] text = "-5" -> Num(0 - 5)
    [] OTHER -> NaN

\* An amount that keeps what Number gave.
AmountOfInputUnchecked(text) == Number(text)

\* Number(betAmount) || 0
AmountOfInput(text) ==
  LET n == Number(text)
  IN  IF n = NaN \/ n = Num(0) THEN Num(0) ELSE n

\* A translation that raises when there is a bet to call.
CheckOrCallRaises(currentBet) == IF currentBet > 0 THEN "raise" ELSE "check"

\* currentBet > 0 ? "call" : "check"
CheckOrCall(currentBet) == IF currentBet > 0 THEN "call" ELSE "check"

\* The switch of handleSendAction: the action and the amount it passes to
\* sendPlayerAction.
WireAction(kind, currentBet, text) ==
  CASE kind = "fold" -> [action |-> "fold", amount |-> Undefined]
    [] kind = "check_or_call" ->
         [action |-> CheckOrCall(currentBet), amount |-> Undefined]
    [] kind = "bet" -> [action |-> "bet", amount |-> AmountOfInput(text)]
    [] kind = "raise" -> [action |-> "raise", amount |-> AmountOfInput(text)]

mapUiActionToGql(kind) ==
  CASE kind = "fold" -> "Fold" [] kind = "check" -> "Check"
    [] kind = "call" -> "Call" [] kind = "bet" -> "Bet"
    [] kind = "raise" -> "Raise" [] kind = "all_in" -> "AllIn"

\* The variables playerAction sends: amount ?? null.
PlayerActionVariables(tableId, wire) ==
  [tableId |-> tableId,
   action |-> mapUiActionToGql(wire.action),
   amount |-> IF wire.amount = Undefined THEN Null ELSE wire.amount]

SendActionInputs ==
  { [fn |-> "handleSendAction", kind |-> kind, currentBet |-> currentBet,
     betAmount |-> text] :
      kind \in Buttons, currentBet \in {0, 1, 50, 120},
      text \in {"", "0", "50", "-5", "abc"} }

\* handleSendAction up to the mutation it sends.
SendActionRequest ==
  /\ fnPc = "ready"
  /\ fnArgs.fn = "handleSendAction"
  /\ LET wire == WireAction(fnArgs.kind, fnArgs.currentBet, fnArgs.betAmount)
     IN  fnResult' = [k |-> "sent", wire |-> wire,
                      variables |-> PlayerActionVariables("t1", wire)]
  /\ fnPc' = "done"
  /\ UNCHANGED <<fnArgs, fnLocals, nonFnVars>>

NoArgs == [fn |-> "none"]
NoReturn == [k |-> "none"]
NoLocals == [current |-> Null]

FnIdle ==
  /\ fnArgs = NoArgs
  /\ fnResult = NoReturn
  /\ fnLocals = NoLocals
  /\ fnPc = "ready"

AckIdle ==
  /\ ackIn = [data |-> Null, fieldNames |-> <<>>, context |-> ""]
  /\ ackOut = NoAck
  /\ ackPc = "ready"

(***************************************************************************)
(* pokerApi.ts: callServiceGraphQL.                                        *)
(***************************************************************************)

\* The modules of the repository that export a getBackend.  pokerApi.ts
\* imports the one of lineraWallet.ts; lineraClient.ts, which re-exports
\* pokerApi.ts, has its own.
Accessors == {"lineraWallet", "lineraClient"}

\* The property names of the handle a getBackend resolves with: the
\* BackendContext of lineraWallet.ts, or the application lineraClient.ts has
\* checked for a query function.
HandleFields(a) ==
  IF a = "lineraWallet" THEN BackendContextFields ELSE {"query"}

NoQueryError == "TypeError: backend.query is not a function"

\* A join that keeps the first message only.
JoinFirstOnly(msgs) == msgs[1]

\* msgs.join("; ")
RECURSIVE Join(_)
Join(msgs) ==
  IF msgs = <<>> THEN ""
  ELSE IF Len(msgs) = 1 THEN msgs[1]
  ELSE msgs[1] \o "; " \o Join(Tail(msgs))

\* What backend.query may answer: a rejection, a string that is no JSON, or
\* the JSON text of a value.
Rejected == [k |-> "rejected"]
NotJson == [k |-> "text"]
Json(v) == [k |-> "json", v |-> v]

\* What join() writes for an element: the string itself, nothing for null
\* and undefined.
JoinText(v) == IF v.t = "string" THEN v.s ELSE ""

\* parsed.errors.map((er) => er.message)
ErrorMessages(errors) ==
  [i \in 1..Len(errors.a) |-> JoinText(Prop(errors.a[i], "message"))]

\* callServiceGraphQL from the answer of backend.query on: the data it
\* returns, or the error it throws.  (The source quotes the word data of the
\* last message with backquotes, which a string here cannot hold.)
CallResult(resp) ==
  IF resp.k = "rejected" THEN [ok |-> FALSE, err |-> "backend.query rejected"]
  ELSE IF resp.k = "text"
    THEN [ok |-> FALSE, err |-> "Invalid JSON from backend.query()"]
  ELSE IF resp.v.t = "null"
    THEN [ok |-> FALSE,
          err |-> "TypeError: Cannot read properties of null (reading 'errors')"]
  ELSE LET errors == Prop(resp.v, "errors")
           data == Prop(resp.v, "data")
       IN  IF errors.t = "array" /\ Len(errors.a) > 0
             THEN [ok |-> FALSE,
                   err |-> "Linera GraphQL error: "
                             \o Join(ErrorMessages(errors))]
           ELSE IF ~Truthy(data)
             THEN [ok |-> FALSE,
                   err |-> "Linera GraphQL error: missing 'data' in response"]
           ELSE [ok |-> TRUE, data |-> data]

(***************************************************************************)
(* lineraClient.ts: gql, from the answer of backend.query on.              *)
(***************************************************************************)

\* isRecord(e) && typeof e.message === "string" ? e.message : "Unknown error"
GqlErrorMessages(errors) ==
  [i \in 1..Len(errors.a) |->
     LET m == Prop(errors.a[i], "message")
     IN  IF m.t = "string" THEN m.s ELSE "Unknown error"]

GqlResult(resp) ==
  IF resp.k = "rejected" THEN [ok |-> FALSE, err |-> "backend.query rejected"]
  ELSE IF resp.k = "text"
    THEN [ok |-> FALSE, err |-> "Backend returned invalid JSON"]
  ELSE IF ~IsObject(resp.v)
    THEN [ok |-> FALSE, err |-> "Unexpected GraphQL response shape"]
  ELSE LET errors == Prop(resp.v, "errors")
           data == Prop(resp.v, "data")
       IN  IF errors.t = "array" /\ Len(errors.a) > 0
             THEN [ok |-> FALSE, err |-> Join(GqlErrorMessages(errors))]
           ELSE IF data.t = "undefined"
             THEN [ok |-> FALSE, err |-> "GraphQL response has no data"]
           ELSE [ok |-> TRUE, data |-> data]

(***************************************************************************)
(* One call of a transport on an answer of backend.query.                  *)
(***************************************************************************)
MaxErrors == 2

\* The elements of an errors list: two with a message, one without.
ErrorElements ==
  { Obj([message |-> Str("e1")]), Obj([message |-> Str("e2")]),
    Obj([path |-> Str("table")]) }

ErrorLists ==
  UNION { { Arr(a) : a \in [1..n -> ErrorElements] } : n \in 0..MaxErrors }

\* The parsed answers: the errors and data fields are absent or hold one of
\* the values drawn.
ParsedResponse(errors, data) ==
  LET all == [errors |-> errors, data |-> data]
      present == {k \in DOMAIN all : all[k] # Absent}
  IN  Obj([k \in present |-> all[k]])

DataValues ==
  { Absent, Null, Bool(FALSE), Num(0), Str(""), EmptyObj,
    Obj([table |-> Null]), Arr(<<>>) }

TransportAnswers ==
  { Rejected, NotJson, Json(Null), Json(Num(1)) }
  \cup
  { Json(ParsedResponse(errors, data)) :
      errors \in ErrorLists \cup {Absent, Null}, data \in DataValues }

TransportInputs ==
  { [fn |-> fn, resp |-> resp] :
      fn \in {"callServiceGraphQL", "gql"}, resp \in TransportAnswers }

Thrown(r) ==
  IF r.ok THEN [k |-> "return", v |-> r.data] ELSE [k |-> "throw", err |-> r.err]

\* callServiceGraphQL runs on the answer drawn.
CallServiceGraphQL ==
  /\ fnPc = "ready"
  /\ fnArgs.fn = "callServiceGraphQL"
  /\ fnResult' = Thrown(CallResult(fnArgs.resp))
  /\ fnPc' = "done"
  /\ UNCHANGED <<fnArgs, fnLocals, nonFnVars>>

\* gql runs on the answer drawn.
GqlCall ==
  /\ fnPc = "ready"
  /\ fnArgs.fn = "gql"
  /\ fnResult' = Thrown(GqlResult(fnArgs.resp))
  /\ fnPc' = "done"
  /\ UNCHANGED <<fnArgs, fnLocals, nonFnVars>>

(***************************************************************************)
(* pokerApi.ts: the wrappers that send a mutation and fetch the state      *)
(* again, and TablePage.handleSendAction, which reloads the table after    *)
(* sendPlayerAction.                                                       *)
(***************************************************************************)
Wrappers ==
  {"createTournament", "registerToTournament", "unregisterFromTournament",
   "startTournament", "advanceTournamentLevel", "closeTournament",
   "sendPlayerAction", "handleSendAction"}

\* The mutation a wrapper sends.
Mutation(w) ==
  CASE w = "registerToTournament" -> "registerPlayerToTournament"
    [] w = "unregisterFromTournament" -> "unregisterPlayerFromTournament"
    [] w \in {"sendPlayerAction", "handleSendAction"} -> "playerAction"
    [] OTHER -> w

\* The message a wrapper throws for a failed acknowledgement without one.
Fallback(w) ==
  CASE w = "createTournament" -> "CreateTournament failed"
    [] w = "registerToTournament" -> "RegisterPlayer failed"
    [] w = "unregisterFromTournament" -> "UnregisterPlayer failed"
    [] w = "startTournament" -> "StartTournament failed"
    [] w = "advanceTournamentLevel" -> "AdvanceTournamentLevel failed"
    [] w = "closeTournament" -> "CloseTournament failed"
    [] w \in {"sendPlayerAction", "handleSendAction"} -> "PlayerAction failed"

\* The field of the fetch's data that holds the state fetched.
ViewField(w) ==
  IF w \in {"sendPlayerAction", "handleSendAction"}
    THEN "table" ELSE "tournamentById"

\* A wrapper that ignores the service's message.
AckErrorFallbackOnly(w, ack) == Fallback(w)

\* ack.message || "<fallback>"
AckError(w, ack) == IF ack.message # "" THEN ack.message ELSE Fallback(w)

\* A wrapper that fetches the state first and sends the mutation after.
FirstRequestFetch == "fetch"

\* The first request of a wrapper is its mutation.
FirstRequest == "mutation"

\* The request that follows an answered one, "none" after the last.
NextRequest(w, kind) ==
  CASE kind = "mutation" -> "fetch"
    [] kind = "fetch" -> IF w = "handleSendAction" THEN "reload" ELSE "none"
    [] OTHER -> "none"

IdleProc ==
  [pc |-> "idle", w |-> "none", kind |-> "none", ack |-> NoAck,
   err |-> "", sent |-> <<>>]

\* A wrapper fails: its promise rejects with the message (handleSendAction
\* puts the message in the page's error state instead).
Fail(p, msg) == [proc EXCEPT ![p].pc = "failed", ![p].err = msg]

\* The wrapper calls callServiceGraphQL for its next request, which suspends
\* at `await getBackend()`.
Request(pr, kind) == [pr EXCEPT !.pc = "backend", !.kind = kind]

\* The answers of the service the model draws from.
MutationAnswers(w) ==
  LET camel == FieldNames(Mutation(w))[1]
      snake == FieldNames(Mutation(w))[2]
  IN  { Rejected,
        Json(Obj([errors |-> Arr(<<Obj([message |-> Str("e1")]),
                                   Obj([message |-> Str("e2")])>>)])),
        Json(EmptyObj),
        Json(Obj([data |-> EmptyObj])),
        Json(Obj([data |->
          Obj(camel :> Obj([ok |-> Bool(TRUE), message |-> Str("")]))])),
        Json(Obj([data |->
          Obj(camel :> Obj([ok |-> Bool(FALSE), message |-> Str("bad seat")]))])),
        Json(Obj([data |->
          Obj(camel :> Obj([ok |-> Bool(FALSE), message |-> Str("")]))])),
        Json(Obj([data |->
          Obj(snake :> Obj([success |-> Bool(FALSE),
                            error |-> Str("bad seat")]))])) }

FetchAnswers(w) ==
  { Rejected,
    Json(Obj([data |-> Obj(ViewField(w) :> Null)])),
    Json(Obj([data |-> Obj(ViewField(w) :> Obj([name |-> Str("t")]))])) }

\* A wrapper is called.
CallWrapper(p, w) ==
  /\ proc[p].pc = "idle"
  /\ proc' = [proc EXCEPT ![p] = Request([IdleProc EXCEPT !.w = w], FirstRequest)]
  /\ UNCHANGED <<accessor, backendReady, inflight, nonApiVars>>

\* `await getBackend()` settles in callServiceGraphQL.  With a handle the
\* request goes to backend.query; a handle without that property throws.
BackendSettles(p, ok) ==
  /\ proc[p].pc = "backend"
  /\ ok \/ ~backendReady
  /\ backendReady' = (backendReady \/ ok)
  /\ IF ~ok
       THEN proc' = Fail(p, "bootstrap failed") /\ UNCHANGED inflight
       ELSE IF "query" \notin HandleFields(accessor)
         THEN proc' = Fail(p, NoQueryError) /\ UNCHANGED inflight
         ELSE /\ proc' = [proc EXCEPT ![p].pc = "query",
                            ![p].sent = Append(proc[p].sent, proc[p].kind)]
              /\ inflight' = inflight \cup {[p |-> p, kind |-> proc[p].kind]}
  /\ UNCHANGED <<accessor, nonApiVars>>

\* The mutation is answered: callServiceGraphQL, extractAckFromResponse and
\* the wrapper's test of ack.ok run.
MutationAnswered(p, resp) ==
  /\ proc[p].pc = "query" /\ proc[p].kind = "mutation"
  /\ [p |-> p, kind |-> "mutation"] \in inflight
  /\ resp \in MutationAnswers(proc[p].w)
  /\ inflight' = inflight \ {[p |-> p, kind |-> "mutation"]}
  /\ LET r == CallResult(resp)
         m == Mutation(proc[p].w)
         ack == extractAckFromResponse(r.data, FieldNames(m), m)
     IN  IF ~r.ok THEN proc' = Fail(p, r.err)
         ELSE IF ~ack.ok
           THEN proc' = [Fail(p, AckError(proc[p].w, ack)) EXCEPT ![p].ack = ack]
           ELSE proc' = [proc EXCEPT ![p] =
                  Request([proc[p] EXCEPT !.ack = ack],
                          NextRequest(proc[p].w, "mutation"))]
  /\ UNCHANGED <<accessor, backendReady, nonApiVars>>

\* A fetch is answered.  fetchTournament's null makes the tournament
\* wrappers throw; fetchTable's null is a result.
FetchAnswered(p, resp) ==
  /\ proc[p].pc = "query" /\ proc[p].kind \in {"fetch", "reload"}
  /\ [p |-> p, kind |-> proc[p].kind] \in inflight
  /\ resp \in FetchAnswers(proc[p].w)
  /\ inflight' = inflight \ {[p |-> p, kind |-> proc[p].kind]}
  /\ LET r == CallResult(resp)
         w == proc[p].w
         next == NextRequest(w, proc[p].kind)
     IN  IF ~r.ok THEN proc' = Fail(p, r.err)
         ELSE IF ViewField(w) = "tournamentById"
                 /\ ~Truthy(Prop(r.data, ViewField(w)))
           THEN proc' = Fail(p, "Tournament not found after " \o w)
         ELSE IF next = "none"
           THEN proc' = [proc EXCEPT ![p].pc = "done"]
           ELSE proc' = [proc EXCEPT ![p] = Request(proc[p], next)]
  /\ UNCHANGED <<accessor, backendReady, nonApiVars>>

ApiIdle ==
  /\ accessor = "lineraWallet"
  /\ backendReady = FALSE
  /\ proc = [p \in 1..NWrapperCalls |-> IdleProc]
  /\ inflight = {}

(***************************************************************************)
(* lineraClient.ts: ensureLineraInitialized, getClient, getBackend.        *)
(* A memo is "null" or the state of the promise it holds.  No line of the  *)
(* file assigns null to a memo again.                                      *)
(***************************************************************************)

\* ensureLineraInitialized(): linera.initialize() is called once.
EnsureLineraInitialized ==
  IF wasmInitPromise = "null"
    THEN wasmInitPromise' = "pending" /\ clientStep' = "initialize"
    ELSE UNCHANGED <<wasmInitPromise, clientStep>>

\* getClient(): the bootstrap of the client is started once.
GetClient ==
  IF clientPromise = "null"
    THEN clientPromise' = "pending" /\ EnsureLineraInitialized
    ELSE UNCHANGED <<clientPromise, wasmInitPromise, clientStep>>

\* getBackend() of lineraClient.ts, up to the first suspension point.
ClientGetBackend ==
  IF clientBackendPromise = "null"
    THEN /\ clientStarts' = clientStarts + 1
         /\ IF ~appId
              THEN /\ clientBackendPromise' = "rejected"
                   /\ clientErr' = "VITE_LINERA_APP_ID is missing"
                   /\ UNCHANGED <<clientPromise, wasmInitPromise, clientStep>>
              ELSE /\ clientBackendPromise' = "pending"
                   /\ clientErr' = clientErr
                   /\ GetClient
    ELSE UNCHANGED <<clientBackendPromise, clientErr, clientStarts,
                     clientPromise, wasmInitPromise, clientStep>>

\* A rejection inside getClient() reaches the awaiting getBackend().
ClientBootstrapFails(e) ==
  /\ clientPromise' = "rejected"
  /\ clientBackendPromise' = "rejected"
  /\ clientErr' = e
  /\ clientStep' = "none"

\* linera.initialize() settles.
InitializeSettles(ok) ==
  /\ clientStep = "initialize"
  /\ wasmInitPromise = "pending"
  /\ IF ok
       THEN /\ wasmInitPromise' = "fulfilled"
            /\ clientStep' = "createWallet"
            /\ UNCHANGED <<clientPromise, clientBackendPromise, clientErr>>
       ELSE /\ wasmInitPromise' = "rejected"
            /\ ClientBootstrapFails("initialize failed")
  /\ UNCHANGED <<appId, clientStarts, landing, gqlCalls, route, nonClientVars>>

\* faucet.createWallet() settles.
CreateWalletSettles(ok) ==
  /\ clientStep = "createWallet"
  /\ IF ok
       THEN /\ clientStep' = "claimChain"
            /\ UNCHANGED <<clientPromise, clientBackendPromise, clientErr>>
       ELSE ClientBootstrapFails("createWallet failed")
  /\ UNCHANGED <<appId, wasmInitPromise, clientStarts, landing, gqlCalls,
                 route, nonClientVars>>

\* faucet.claimChain() settles; getBackend() goes on to bind the application.
ClaimChainSettles(ok) ==
  /\ clientStep = "claimChain"
  /\ IF ok
       THEN /\ clientPromise' = "fulfilled"
            /\ clientStep' = "application"
            /\ UNCHANGED <<clientBackendPromise, clientErr>>
       ELSE ClientBootstrapFails("claimChain failed")
  /\ UNCHANGED <<appId, wasmInitPromise, clientStarts, landing, gqlCalls,
                 route, nonClientVars>>

\* client.frontend().application(APP_ID) settles; the result must be a
\* record with a query function.
ApplicationSettles(ok, hasQuery) ==
  /\ clientStep = "application"
  /\ clientStep' = "none"
  /\ IF ok /\ hasQuery
       THEN clientBackendPromise' = "fulfilled" /\ clientErr' = clientErr
       ELSE /\ clientBackendPromise' = "rejected"
            /\ clientErr' = IF ok THEN "Backend does not expose query"
                                  ELSE "application failed"
  /\ UNCHANGED <<appId, wasmInitPromise, clientPromise, clientStarts, landing,
                 gqlCalls, route, nonClientVars>>

(***************************************************************************)
(* LandingPage.tsx: handlePlayTournament.                                  *)
(***************************************************************************)

\* The click handler up to `await getBackend()`.
\* A handler without its guard.
AlreadyConnectingIgnored == FALSE

\* if (isConnecting) return
AlreadyConnecting == landing.isConnecting

HandlePlayTournament ==
  /\ route = "landing"
  /\ IF AlreadyConnecting
       THEN UNCHANGED clientVars
       ELSE /\ landing' = [isConnecting |-> TRUE, errorMessage |-> "null",
                           pending |-> landing.pending + 1]
            /\ ClientGetBackend
            /\ UNCHANGED <<appId, gqlCalls, route>>
  /\ UNCHANGED nonClientVars

\* The handler's continuation once the awaited promise has settled.
HandlePlayTournamentResumes ==
  /\ landing.pending > 0
  /\ clientBackendPromise \in {"fulfilled", "rejected"}
  /\ landing' = [isConnecting |-> FALSE,
                 errorMessage |-> IF clientBackendPromise = "rejected"
                                    THEN clientErr ELSE landing.errorMessage,
                 pending |-> landing.pending - 1]
  /\ route' = IF clientBackendPromise = "fulfilled" THEN "lobby" ELSE route
  /\ UNCHANGED <<appId, wasmInitPromise, clientPromise, clientBackendPromise,
                 clientStep, clientErr, clientStarts, gqlCalls, nonClientVars>>

\* The user comes back from the lobby to the landing page.
BackToLanding ==
  /\ route = "lobby"
  /\ route' = "landing"
  /\ UNCHANGED <<appId, wasmInitPromise, clientPromise, clientBackendPromise,
                 clientStep, clientErr, clientStarts, landing, gqlCalls,
                 nonClientVars>>

(***************************************************************************)
(* lineraClient.ts: gql, up to the handle it obtains.                      *)
(***************************************************************************)

\* gql() is called and suspends at `await getBackend()`.
Gql(c) ==
  /\ gqlCalls[c].pc # "waiting"
  /\ gqlCalls' = [gqlCalls EXCEPT ![c] = [pc |-> "waiting", res |-> "none"]]
  /\ ClientGetBackend
  /\ UNCHANGED <<appId, landing, route, nonClientVars>>

\* `await getBackend()` settles in gql(): a handle, or the error thrown on.
GqlResumes(c) ==
  /\ gqlCalls[c].pc = "waiting"
  /\ clientBackendPromise \in {"fulfilled", "rejected"}
  /\ gqlCalls' = [gqlCalls EXCEPT ![c] =
       [pc |-> "done",
        res |-> IF clientBackendPromise = "fulfilled" THEN "handle"
                                                      ELSE clientErr]]
  /\ UNCHANGED <<appId, wasmInitPromise, clientPromise, clientBackendPromise,
                 clientStep, clientErr, clientStarts, landing, route,
                 nonClientVars>>

(***************************************************************************)
(* TablePage.tsx: loadTable, handleSendAction and the controls that call   *)
(* them.  fetchTable and sendPlayerAction are the calls of pokerApi.ts;    *)
(* here each is a request that settles later with what the service said.   *)
(***************************************************************************)
MaxLoads == 3

DEV_PLAYER_ID == Str("1")

\* The snapshots fetchTable returns here: nobody has bet, somebody has.
PageTables ==
  { t \in WireTables :
      /\ t.dealer_button = Num(3) /\ t.board = <<>>
      /\ t.current_actor_seat = Num(0)
      /\ Len(t.players) \in {1, 2}
      /\ t.players[1].player_id = 1
      /\ Len(t.players) = 2 => t.players[2].player_id = 2 }

\* What fetchTable settles with: a snapshot, null when the service has no
\* such table, or something thrown.
FetchOutcomes ==
  {[k |-> "value", v |-> t] : t \in PageTables \cup {Null}}
    \cup {[k |-> "error", message |-> "Network down"], [k |-> "thrown"]}

\* What the mutation of sendPlayerAction settles with.
AckOutcomes ==
  {[k |-> "ack", ok |-> TRUE, message |-> ""],
   [k |-> "ack", ok |-> FALSE, message |-> "Not your turn"],
   [k |-> "ack", ok |-> FALSE, message |-> ""],
   [k |-> "error", message |-> "Network down"], [k |-> "thrown"]}

\* sendPlayerAction: if (!ack.ok) throw new Error(ack.message || "PlayerAction failed")
SendFailure(outcome) ==
  IF outcome.k = "ack"
  THEN [k |-> "error",
        message |-> IF outcome.message = "" THEN "PlayerAction failed"
                    ELSE outcome.message]
  ELSE outcome

\* e instanceof Error ? e.message : fallback
MessageOf(e, fallback) == IF e.k = "error" THEN e.message ELSE fallback

\* A loadTable that keeps the view model when the service has no table.
ViewOfKeepOnNull(onchain, held) ==
  IF onchain = Null THEN held ELSE mapTableToUi(onchain, DEV_PLAYER_ID)

\* loadTable: the view model it sets from what fetchTable returned.
ViewOf(onchain, held) ==
  IF onchain = Null THEN Null ELSE mapTableToUi(onchain, DEV_PLAYER_ID)

\* A catch block that leaves the error state alone.
ErrorAfterFailureKept(message, held) == held

\* catch (e) { setError(message) }
ErrorAfterFailure(message, held) == Str(message)

NoCommand == [pc |-> "idle"]
NoEvent == [op |-> "none"]

isBusy == loading \/ commandLoading

\* loadTable up to its await: setLoading(true), setError(null), fetchTable.
LoadTable ==
  /\ nLoads < MaxLoads
  /\ nLoads' = nLoads + 1
  /\ loadsInFlight' = loadsInFlight \cup {nLoads + 1}
  /\ loading' = TRUE
  /\ pageError' = Null

\* useEffect on [tableId, loadTable]: the first load, and a load whenever the
\* table id of the route changes.
TableIdEffect ==
  /\ LoadTable
  /\ lastEvent' = [op |-> "effect"]
  /\ UNCHANGED <<devMode, uiView, commandLoading, betAmount, command,
                 loadOrder, nonPageVars>>

\* The Refresh button, disabled while isBusy.
Refresh ==
  /\ nLoads > 0
  /\ ~isBusy
  /\ LoadTable
  /\ lastEvent' = [op |-> "refresh"]
  /\ UNCHANGED <<devMode, uiView, commandLoading, betAmount, command,
                 loadOrder, nonPageVars>>

\* DevTableTools onReload, rendered when DEV_MULTI_SEAT_MODE is set.
DevReload ==
  /\ nLoads > 0
  /\ devMode
  /\ LoadTable
  /\ lastEvent' = [op |-> "devReload"]
  /\ UNCHANGED <<devMode, uiView, commandLoading, betAmount, command,
                 loadOrder, nonPageVars>>

\* The amount input: onChange sets betAmount.
SetBetAmount(text) ==
  /\ nLoads > 0
  /\ text # betAmount
  /\ betAmount' = text
  /\ lastEvent' = [op |-> "input"]
  /\ UNCHANGED <<devMode, uiView, loading, commandLoading, pageError, nLoads,
                 loadsInFlight, command, loadOrder, nonPageVars>>

\* The disabled attribute of the four action buttons.
Disabled(kind) == isBusy \/ (kind \in {"bet", "raise"} /\ betAmount = "")

\* A button is pressed: handleSendAction up to its first await.
HandleSendAction(kind) ==
  /\ nLoads > 0
  /\ ~Disabled(kind)
  /\ uiView # Null
  /\ commandLoading' = TRUE
  /\ pageError' = Null
  /\ command' =
       [pc |-> "mutation",
        variables |-> PlayerActionVariables(
                        "t1", WireAction(kind, uiView.gameState.currentBet,
                                         betAmount))]
  /\ lastEvent' = [op |-> "handleSendAction", outcome |-> "sent", kind |-> kind]
  /\ UNCHANGED <<devMode, uiView, loading, betAmount, nLoads, loadsInFlight,
                 loadOrder, nonPageVars>>

\* handleSendAction: catch and finally.
SendActionFails(e) ==
  /\ pageError' = ErrorAfterFailure(MessageOf(e, "Failed to send action"),
                                    pageError)
  /\ commandLoading' = FALSE
  /\ command' = NoCommand
  /\ lastEvent' = [op |-> "handleSendAction", outcome |-> "failed",
                   message |-> MessageOf(e, "Failed to send action")]
  /\ UNCHANGED <<devMode, uiView, loading, betAmount, nLoads, loadsInFlight,
                 loadOrder, nonPageVars>>

\* The mutation of sendPlayerAction settles.
MutationSettles(outcome) ==
  /\ command.pc = "mutation"
  /\ IF outcome.k = "ack" /\ outcome.ok
     THEN /\ command' = [command EXCEPT !.pc = "fetch"]
          /\ lastEvent' = [op |-> "handleSendAction", outcome |-> "acked"]
          /\ UNCHANGED <<devMode, uiView, loading, commandLoading, pageError,
                         betAmount, nLoads, loadsInFlight, loadOrder,
                         nonPageVars>>
     ELSE SendActionFails(SendFailure(outcome))

\* The fetchTable at the end of sendPlayerAction settles; handleSendAction
\* drops its value and calls loadTable.
ActionFetchSettles(outcome) ==
  /\ command.pc = "fetch"
  /\ IF outcome.k = "value"
     THEN /\ LoadTable
          /\ command' = [pc |-> "reload", load |-> nLoads + 1]
          /\ lastEvent' = [op |-> "handleSendAction", outcome |-> "reload"]
          /\ UNCHANGED <<devMode, uiView, commandLoading, betAmount,
                         loadOrder, nonPageVars>>
     ELSE SendActionFails(outcome)

\* The fetchTable of loadTable call id settles: the rest of loadTable, and
\* the finally of the handleSendAction awaiting it.
LoadSettles(id, outcome) ==
  /\ id \in loadsInFlight
  /\ loadsInFlight' = loadsInFlight \ {id}
  /\ loading' = FALSE
  /\ IF outcome.k = "value"
     THEN /\ uiView' = ViewOf(outcome.v, uiView)
          /\ pageError' = pageError
          /\ loadOrder' = IF id > loadOrder.newest
                           THEN [newest |-> id, view |-> uiView']
                           ELSE loadOrder
          /\ lastEvent' = [op |-> "loadTable", outcome |-> "ok", id |-> id,
                           onchain |-> outcome.v, before |-> uiView]
     ELSE /\ uiView' = uiView
          /\ pageError' = ErrorAfterFailure(
                            MessageOf(outcome, "Failed to load table"),
                            pageError)
          /\ loadOrder' = loadOrder
          /\ lastEvent' = [op |-> "loadTable", outcome |-> "failed", id |-> id,
                           message |-> MessageOf(outcome, "Failed to load table")]
  /\ IF command.pc = "reload" /\ command.load = id
     THEN commandLoading' = FALSE /\ command' = NoCommand
     ELSE UNCHANGED <<commandLoading, command>>
  /\ UNCHANGED <<devMode, betAmount, nLoads, nonPageVars>>

PageMounted ==
  /\ uiView = Null
  /\ loading = FALSE
  /\ commandLoading = FALSE
  /\ pageError = Null
  /\ betAmount = ""
  /\ nLoads = 0
  /\ loadsInFlight = {}
  /\ command = NoCommand
  /\ lastEvent = NoEvent
  /\ loadOrder = [newest |-> 0, view |-> Null]

PageIdle == devMode = FALSE /\ PageMounted

WalletInit ==
  /\ backendPromise = 0
  /\ attempts = [i \in AttemptIds |-> NoAttempt]
  /\ nAttempts = 0
  /\ callers = [c \in Callers |-> IdleCaller]

\* The state of lineraClient.ts and LandingPage once the modules are loaded.
ClientInit ==
  /\ wasmInitPromise = "null"
  /\ clientPromise = "null"
  /\ clientBackendPromise = "null"
  /\ clientStep = "none"
  /\ clientErr = "none"
  /\ clientStarts = 0
  /\ landing = [isConnecting |-> FALSE, errorMessage |-> "null", pending |-> 0]
  /\ gqlCalls = [c \in Callers |-> [pc |-> "idle", res |-> "none"]]
  /\ route = "landing"

Init ==
  /\ build \in Builds
  /\ WalletInit
  /\ appId = TRUE
  /\ ClientInit
  /\ AckIdle
  /\ ApiIdle
  /\ FnIdle
  /\ PageIdle

Next ==
  \/ \E c \in Callers : GetBackend(c)
  \/ \E i \in AttemptIds, ok \in BOOLEAN : InitWalletResolves(i, ok)
  \/ \E i \in AttemptIds, bound \in BOOLEAN : GetLineraClientResolves(i, bound)
  \/ \E i \in AttemptIds : SubStepRejects(i)
  \/ \E i \in AttemptIds : TimerFires(i)
  \/ \E i \in AttemptIds : CatchHandler(i)
  \/ \E i \in AttemptIds : PassThrough(i)
  \/ \E c \in Callers : Observe(c)

Spec == Init /\ [][Next]_vars

ClientSpecInit ==
  /\ build = "lineraWallet.ts"
  /\ WalletInit
  /\ appId \in BOOLEAN
  /\ ClientInit
  /\ AckIdle
  /\ ApiIdle
  /\ FnIdle
  /\ PageIdle

ClientNext ==
  \/ HandlePlayTournament
  \/ HandlePlayTournamentResumes
  \/ BackToLanding
  \/ \E c \in Callers : Gql(c)
  \/ \E c \in Callers : GqlResumes(c)
  \/ \E ok \in BOOLEAN : InitializeSettles(ok)
  \/ \E ok \in BOOLEAN : CreateWalletSettles(ok)
  \/ \E ok \in BOOLEAN : ClaimChainSettles(ok)
  \/ \E ok, hasQuery \in BOOLEAN : ApplicationSettles(ok, hasQuery)

ClientSpec == ClientSpecInit /\ [][ClientNext]_vars

AckSpecInit ==
  /\ build = "lineraWallet.ts"
  /\ WalletInit
  /\ appId = TRUE
  /\ ClientInit
  /\ ackIn \in AckInputs
  /\ ackOut = NoAck
  /\ ackPc = "ready"
  /\ ApiIdle
  /\ FnIdle
  /\ PageIdle

AckNext == ExtractAck

AckSpec == AckSpecInit /\ [][AckNext]_vars

ApiSpecInit ==
  /\ build = "lineraWallet.ts"
  /\ WalletInit
  /\ appId = TRUE
  /\ ClientInit
  /\ AckIdle
  /\ accessor \in Accessors
  /\ backendReady = FALSE
  /\ proc = [p \in 1..NWrapperCalls |-> IdleProc]
  /\ inflight = {}
  /\ FnIdle
  /\ PageIdle

ApiNext ==
  \/ \E p \in 1..NWrapperCalls, w \in Wrappers : CallWrapper(p, w)
  \/ \E p \in 1..NWrapperCalls, ok \in BOOLEAN : BackendSettles(p, ok)
  \/ \E p \in 1..NWrapperCalls :
       \E resp \in UNION {MutationAnswers(w) : w \in Wrappers} :
         MutationAnswered(p, resp)
  \/ \E p \in 1..NWrapperCalls :
       \E resp \in UNION {FetchAnswers(w) : w \in Wrappers} :
         FetchAnswered(p, resp)

ApiSpec == ApiSpecInit /\ [][ApiNext]_vars

\* The specifications of one call of a function: the arguments are drawn in
\* the initial state.
FnInit(inputs) ==
  /\ build = "lineraWallet.ts"
  /\ WalletInit
  /\ appId = TRUE
  /\ ClientInit
  /\ AckIdle
  /\ ApiIdle
  /\ fnArgs \in inputs
  /\ fnResult = NoReturn
  /\ fnLocals = NoLocals
  /\ fnPc = "ready"
  /\ PageIdle

NormalizeAckInit == FnInit(NormalizeAckInputs)

NormalizeAckNext == NormalizeAck

NormalizeAckSpec == NormalizeAckInit /\ [][NormalizeAckNext]_vars

TransportInit == FnInit(TransportInputs)

TransportNext == CallServiceGraphQL \/ GqlCall

TransportSpec == TransportInit /\ [][TransportNext]_vars

BlindInit == FnInit(BlindInputs)

BlindNext == ComputeBlindSeats \/ SmallBlindProbe \/ BigBlindProbe

BlindSpec == BlindInit /\ [][BlindNext]_vars

\* The call runs on: nothing suspends it.
BlindFairness ==
  /\ WF_vars(ComputeBlindSeats)
  /\ WF_vars(SmallBlindProbe)
  /\ WF_vars(BigBlindProbe)

BlindFairSpec == BlindSpec /\ BlindFairness

MapTableInit == FnInit(MapTableInputs)

MapTableNext == MapTableToUi \/ MapTableToUiAgain

MapTableSpec == MapTableInit /\ [][MapTableNext]_vars

\* computeBlindSeats on its own and inside mapTableToUi.
CardUtilsInit == BlindInit \/ MapTableInit

CardUtilsNext == BlindNext \/ MapTableNext

CardUtilsSpec == CardUtilsInit /\ [][CardUtilsNext]_vars

PageInit ==
  /\ build = "lineraWallet.ts"
  /\ WalletInit
  /\ appId = TRUE
  /\ ClientInit
  /\ AckIdle
  /\ ApiIdle
  /\ FnIdle
  /\ devMode \in BOOLEAN
  /\ PageMounted

PageNext ==
  \/ TableIdEffect
  \/ Refresh
  \/ DevReload
  \/ \E text \in {"", "50"} : SetBetAmount(text)
  \/ \E kind \in Buttons : HandleSendAction(kind)
  \/ \E outcome \in AckOutcomes : MutationSettles(outcome)
  \/ \E outcome \in FetchOutcomes : ActionFetchSettles(outcome)
  \/ \E id \in 1..MaxLoads, outcome \in FetchOutcomes : LoadSettles(id, outcome)

PageSpec == PageInit /\ [][PageNext]_vars

SendActionInit == FnInit(SendActionInputs)

SendActionNext == SendActionRequest

SendActionSpec == SendActionInit /\ [][SendActionNext]_vars

\* Timers fire and queued microtasks run; the external calls owe nothing.
Fairness ==
  /\ \A i \in AttemptIds : WF_vars(TimerFires(i))
  /\ \A i \in AttemptIds : WF_vars(CatchHandler(i))
  /\ \A i \in AttemptIds : WF_vars(PassThrough(i))
  /\ \A c \in Callers : WF_vars(Observe(c))

FairSpec == Spec /\ Fairness

(***************************************************************************)
(* Claims about the lineraWallet bootstrap.                                *)
(***************************************************************************)

InFlight(i) == attempts[i].memo = "pending"

\* C1: single flight.  At most one createBackend attempt is in flight; an
\* attempt that is in flight or has succeeded is the one the memo holds (so
\* no attempt was started over it); and a caller that found the memo
\* occupied was handed the promise it found.
C1_SingleFlight ==
  /\ \A i, j \in AttemptIds : InFlight(i) /\ InFlight(j) => i = j
  /\ \A i \in AttemptIds :
       attempts[i].memo \in {"pending", "fulfilled"} => backendPromise = i
  /\ \A c \in Callers :
       callers[c].pc # "idle" /\ callers[c].seen # 0
         => callers[c].att = callers[c].seen

\* Two callers wait on one attempt in flight, the second having joined it.
C1_Witness ==
  /\ callers[1].pc = "waiting" /\ callers[2].pc = "waiting"
  /\ callers[1].att = callers[2].att
  /\ callers[2].seen = callers[1].att
  /\ InFlight(callers[1].att)

\* C2: no poisoning.  The memo never holds the promise of a failed attempt,
\* so getBackend never returns a cached rejection: after a failure the memo
\* is empty and the next call starts a new attempt.
C2_FailureClearsMemo ==
  /\ \A i \in AttemptIds : attempts[i].memo = "rejected" => backendPromise # i
  /\ backendPromise # 0
       => attempts[backendPromise].memo \in {"pending", "fulfilled"}

\* Attempt 1 failed and a later call started attempt 2 from the empty memo.
C2_Witness ==
  /\ attempts[1].memo = "rejected"
  /\ backendPromise = 2
  /\ \E c \in Callers :
       callers[c].pc = "waiting" /\ callers[c].att = 2 /\ callers[c].seen = 0

\* C5: a hanging sub-step is turned into a failure by the timeout: every
\* caller waiting for getBackend eventually gets a handle or an error.
C5_HangBecomesFailure ==
  \A c \in Callers : (callers[c].pc = "waiting") ~> (callers[c].pc = "done")

JoinedSame(c, d) ==
  /\ callers[c].pc = "done" /\ callers[d].pc = "done"
  /\ callers[c].att = callers[d].att

\* What createBackend itself produced in attempt i.
CreateBackendResult(i) ==
  IF attempts[i].cb = "fulfilled"
    THEN [k |-> "handle", att |-> i, err |-> "none"]
    ELSE [k |-> "error", att |-> i, err |-> attempts[i].err]

C6_Agree ==
  /\ \A c, d \in Callers : JoinedSame(c, d) => callers[c].res = callers[d].res
  /\ \A c \in Callers :
       callers[c].pc = "done"
         => callers[c].res = CreateBackendResult(callers[c].att)
  /\ \A c \in Callers :
       callers[c].pc # "idle" /\ callers[c].seen # 0
         => callers[c].att = callers[c].seen

\* C6: the callers of one attempt all get what createBackend produced in
\* that attempt, the same handle or the same error (a timeout included);
\* a caller that joined an attempt started no other; and once the attempt
\* has settled no caller of it stays pending.
C6_SameResult ==
  /\ []C6_Agree
  /\ \A c \in Callers :
       (callers[c].pc = "waiting"
          /\ attempts[callers[c].att].cb \in {"fulfilled", "rejected"})
         ~> (callers[c].pc = "done")

\* Both callers joined attempt 1 and both received its timeout error.
C6_Witness ==
  /\ JoinedSame(1, 2)
  /\ callers[2].seen = callers[1].att
  /\ callers[1].res.k = "error" /\ callers[1].res.err = "timeout"
  /\ callers[2].res = callers[1].res

(***************************************************************************)
(* Claims about the lineraClient bootstrap.                                *)
(***************************************************************************)

\* C3: after a bootstrap failure of lineraClient.ts the shared memos are
\* reset, so no memo keeps a rejected promise and a later getBackend call
\* starts a new attempt.
C3_FailureNotCached ==
  /\ clientBackendPromise # "rejected"
  /\ clientPromise # "rejected"
  /\ wasmInitPromise # "rejected"

(***************************************************************************)
(* Claims about extractAckFromResponse.                                    *)
(***************************************************************************)

\* The positions in fieldNames of the candidates the data holds.
PresentAt ==
  IF IsObject(ackIn.data)
    THEN { i \in 1..Len(ackIn.fieldNames) :
             ackIn.fieldNames[i] \in DOMAIN ackIn.data.f }
    ELSE {}

\* C9: when the data is no object, or holds none of the candidate fields,
\* extractAckFromResponse returns {ok: true, message: ""}.
C9_AbsenceIsSuccess ==
  (ackPc = "done" /\ PresentAt = {})
    => ackOut = [ok |-> TRUE, message |-> ""]

\* The data is an object with a field, but with no candidate field.
C9_Witness ==
  /\ ackPc = "done"
  /\ IsObject(ackIn.data)
  /\ DOMAIN ackIn.data.f = {"__typename"}
  /\ ackOut.ok

\* C10: the result is normalizeAck of the value under the first candidate,
\* in list order, that the data holds, whatever that value is.
C10_FirstPresentField ==
  (ackPc = "done" /\ PresentAt # {})
    => LET first == CHOOSE i \in PresentAt : \A j \in PresentAt : i <= j
       IN  ackOut = normalizeAck(ackIn.data.f[ackIn.fieldNames[first]],
                                 ackIn.context)

\* The first candidate holds null, the second a failure: the null decides.
C10_Witness ==
  /\ ackPc = "done"
  /\ IsObject(ackIn.data)
  /\ ackIn.fieldNames = <<"playerAction", "player_action">>
  /\ DOMAIN ackIn.data.f = {"playerAction", "player_action"}
  /\ ackIn.data.f["playerAction"] = Null
  /\ ackIn.data.f["player_action"] =
       Obj([ok |-> Bool(FALSE), message |-> Str("bad seat")])
  /\ ackOut = [ok |-> TRUE,
               message |-> "playerAction: backend returned non-object ack"]

(***************************************************************************)
(* The transport and the wrappers.                                         *)
(***************************************************************************)
Sent(p, kind) == [p |-> p, kind |-> kind] \in inflight

\* C4: the handle getBackend resolves with, which callServiceGraphQL uses,
\* always exposes query: no transport call fails because backend.query is
\* missing on the handle.
C4_HandleExposesQuery ==
  \A p \in 1..NWrapperCalls :
    proc[p].pc = "failed" => proc[p].err # NoQueryError

\* C7: a wrapper issues its follow-up fetch (and handleSendAction its reload)
\* only after the mutation's acknowledgement has come back; the mutation and
\* the fetch of one invocation are never in flight at the same time.
C7_FetchAfterAck ==
  \A p \in 1..NWrapperCalls :
    /\ Cardinality({r \in inflight : r.p = p}) <= 1
    /\ (Sent(p, "fetch") \/ Sent(p, "reload")) =>
         /\ ~Sent(p, "mutation")
         /\ proc[p].ack # NoAck /\ proc[p].ack.ok
    /\ \A i \in 1..Len(proc[p].sent) :
         proc[p].sent[i] # "mutation" =>
           /\ i > 1 /\ proc[p].sent[1] = "mutation"
           /\ proc[p].ack # NoAck /\ proc[p].ack.ok
    /\ proc[p].pc = "done" => proc[p].sent[1] = "mutation"

C7_Witness ==
  \E p, q \in 1..NWrapperCalls :
    /\ proc[p].w = "handleSendAction"
    /\ proc[p].sent = <<"mutation", "fetch", "reload">>
    /\ Sent(p, "reload")
    /\ proc[q].w = "startTournament"
    /\ Sent(q, "mutation")

\* C8: when the normalized acknowledgement of a mutation has ok = FALSE, the
\* wrapper fails with the service's message, or with the operation's fixed
\* fallback when that message is empty, and issues no fetch.
C8_FailedAckRejects ==
  \A p \in 1..NWrapperCalls :
    (proc[p].ack # NoAck /\ ~proc[p].ack.ok) =>
      /\ proc[p].pc = "failed"
      /\ proc[p].ack.message # "" => proc[p].err = proc[p].ack.message
      /\ proc[p].ack.message = "" => proc[p].err = Fallback(proc[p].w)
      /\ (proc[p].ack.message = "" /\ proc[p].w = "createTournament")
           => proc[p].err = "CreateTournament failed"
      /\ (proc[p].ack.message = "" /\ proc[p].w = "sendPlayerAction")
           => proc[p].err = "PlayerAction failed"
      /\ proc[p].sent = <<"mutation">>
      /\ {r \in inflight : r.p = p} = {}

C8_Witness ==
  \E p, q \in 1..NWrapperCalls :
    /\ proc[p].w = "createTournament"
    /\ proc[p].ack = [ok |-> FALSE, message |-> ""]
    /\ proc[p].err = "CreateTournament failed"
    /\ proc[q].w = "sendPlayerAction"
    /\ proc[q].ack = [ok |-> FALSE, message |-> "bad seat"]
    /\ proc[q].err = "bad seat"

(***************************************************************************)
(* normalizeAck.                                                           *)
(***************************************************************************)
Returned(fn) ==
  fnPc = "done" /\ fnArgs.fn = fn /\ fnResult.k = "return"

IsBoolean(v) == v.t = "boolean"
NonNull(v) == v.t \notin {"null", "undefined"}

\* C11: for an object-valued raw acknowledgement, normalizeAck takes ok from
\* a boolean ok, else a boolean success, else the truthiness of a non-null
\* ok, else the truthiness of a non-null success, else true;
\* {success: false, error: "bad seat"} gives {ok: false, message: "bad seat"}
\* and {} gives {ok: true, message: ""}.
C11_OkPriority ==
  (fnPc = "done" /\ fnArgs.fn = "normalizeAck" /\ fnArgs.raw.t = "object") =>
    LET ok == Prop(fnArgs.raw, "ok")
        success == Prop(fnArgs.raw, "success")
        out == fnResult.v
    IN  /\ fnResult.k = "return"
        /\ IsBoolean(ok) => out.ok = ok.b
        /\ (~IsBoolean(ok) /\ IsBoolean(success)) => out.ok = success.b
        /\ (~IsBoolean(ok) /\ ~IsBoolean(success) /\ NonNull(ok))
             => out.ok = Truthy(ok)
        /\ (~IsBoolean(success) /\ ~NonNull(ok) /\ NonNull(success))
             => out.ok = Truthy(success)
        /\ (~NonNull(ok) /\ ~NonNull(success)) => out.ok = TRUE
        /\ fnArgs.raw = Obj([success |-> Bool(FALSE), error |-> Str("bad seat")])
             => out = [ok |-> FALSE, message |-> "bad seat"]
        /\ fnArgs.raw = EmptyObj => out = [ok |-> TRUE, message |-> ""]

C11_Witness ==
  /\ Returned("normalizeAck")
  /\ fnArgs.raw = Obj([ok |-> Num(0), success |-> Bool(TRUE),
                       error |-> Str("bad seat")])
  /\ fnResult.v = [ok |-> TRUE, message |-> "bad seat"]

\* C12: for a raw acknowledgement that is no object (a string, a number, a
\* boolean, undefined or null) normalizeAck returns ok = true with the
\* message "<context>: backend returned non-object ack"; it neither returns
\* ok = false nor throws.
C12_NonObjectIsSuccess ==
  (fnPc = "done" /\ fnArgs.fn = "normalizeAck"
     /\ fnArgs.raw.t \in {"string", "number", "boolean", "undefined", "null"})
    => /\ fnResult.k = "return"
       /\ fnResult.v.ok = TRUE
       /\ fnResult.v.message
            = fnArgs.context \o ": backend returned non-object ack"

C12_Witness ==
  /\ Returned("normalizeAck")
  /\ fnArgs.raw = Bool(FALSE)
  /\ fnArgs.context = "createTournament"
  /\ fnResult.v = [ok |-> TRUE,
                   message |-> "createTournament: backend returned non-object ack"]

(***************************************************************************)
(* callServiceGraphQL and gql.                                             *)
(***************************************************************************)
IsTransport(fn) == fn \in {"callServiceGraphQL", "gql"}

\* The answer drawn is JSON of an object.
ParsedObject == fnArgs.resp.k = "json" /\ fnArgs.resp.v.t = "object"

HasErrors ==
  /\ ParsedObject
  /\ Prop(fnArgs.resp.v, "errors").t = "array"
  /\ Len(Prop(fnArgs.resp.v, "errors").a) > 0

\* The messages of the first n errors, each after the one before it.
RECURSIVE JoinedUpTo(_, _)
JoinedUpTo(errs, n) ==
  IF n = 1 THEN errs[1].f["message"].s
  ELSE JoinedUpTo(errs, n - 1) \o "; " \o errs[n].f["message"].s

\* C13: a parsed response with a non-empty errors list makes the transport
\* fail, with or without a data field; the message holds the messages of all
\* the errors joined with "; " in their order, and no data is returned.
C13_ErrorsFail ==
  (fnPc = "done" /\ IsTransport(fnArgs.fn) /\ HasErrors) =>
    LET errs == Prop(fnArgs.resp.v, "errors").a
        allText == \A i \in 1..Len(errs) :
                     Prop(errs[i], "message").t = "string"
    IN  /\ fnResult.k = "throw"
        /\ (allText /\ fnArgs.fn = "callServiceGraphQL") =>
             fnResult.err
               = "Linera GraphQL error: " \o JoinedUpTo(errs, Len(errs))
        /\ (allText /\ fnArgs.fn = "gql") =>
             fnResult.err = JoinedUpTo(errs, Len(errs))

C13_Witness ==
  /\ fnPc = "done" /\ fnArgs.fn = "callServiceGraphQL"
  /\ fnArgs.resp = Json(Obj([errors |-> Arr(<<Obj([message |-> Str("e2")]),
                                              Obj([message |-> Str("e1")])>>),
                             data |-> Obj([table |-> Null])]))
  /\ fnResult = [k |-> "throw", err |-> "Linera GraphQL error: e2; e1"]

\* C14: for a parsed response without errors the transport fails with the
\* missing-data error exactly when the response has no data field; a data
\* field that is present is returned unchanged, whatever its value.
C14_DataReturnedAsIs ==
  (fnPc = "done" /\ IsTransport(fnArgs.fn) /\ ParsedObject /\ ~HasErrors) =>
    IF "data" \in DOMAIN fnArgs.resp.v.f
      THEN fnResult = [k |-> "return", v |-> fnArgs.resp.v.f["data"]]
      ELSE fnResult.k = "throw"

(***************************************************************************)
(* computeBlindSeats.                                                      *)
(***************************************************************************)
BlindsDone == fnPc = "done" /\ fnArgs.fn = "computeBlindSeats"

\* The seat k steps after seat s around a table of the size given.
SeatAfter(s, k) == (s + k) % fnArgs.maxSeats

\* Some seat within one lap after s is occupied.
OccupiedWithinLap(s) ==
  \E k \in 1..fnArgs.maxSeats : SeatAfter(s, k) \in fnArgs.seats

\* The first occupied seat strictly after s, walking around the table.
FirstOccupiedAfter(s) ==
  LET k == CHOOSE k \in 1..fnArgs.maxSeats :
             /\ SeatAfter(s, k) \in fnArgs.seats
             /\ \A j \in 1..(k - 1) : SeatAfter(s, j) \notin fnArgs.seats
  IN  SeatAfter(s, k)

\* C15: with a dealer seat and players at distinct seats of 0..capacity-1,
\* the small blind is the first occupied seat strictly after the dealer
\* button, walking modulo the capacity, and the big blind the first occupied
\* seat strictly after the small blind; dealer 2, seats {0, 3, 5}, capacity 6
\* give small blind 3 and big blind 5.
C15_BlindsFollowDealer ==
  (/\ BlindsDone
   /\ fnArgs.dealerSeat # Null
   /\ fnArgs.seats # {}
   /\ fnArgs.seats \subseteq 0..(fnArgs.maxSeats - 1)) =>
    LET sb == FirstOccupiedAfter(fnArgs.dealerSeat.n)
    IN  /\ fnResult.v.smallBlindSeat = Num(sb)
        /\ fnResult.v.bigBlindSeat = Num(FirstOccupiedAfter(sb))
        /\ (fnArgs.dealerSeat = Num(2) /\ fnArgs.seats = {0, 3, 5}
              /\ fnArgs.maxSeats = 6)
             => fnResult.v = [smallBlindSeat |-> Num(3), bigBlindSeat |-> Num(5)]

C15_Witness ==
  /\ BlindsDone
  /\ fnArgs.dealerSeat = Num(2) /\ fnArgs.seats = {0, 3, 5}
  /\ fnArgs.maxSeats = 6
  /\ fnResult.v = [smallBlindSeat |-> Num(3), bigBlindSeat |-> Num(5)]

\* C16: both blinds are unset when the dealer seat is null or there is no
\* player; otherwise a blind is unset only when no occupied seat lies within
\* one lap of the table, and the big blind is unset whenever the small blind
\* is.
C16_BlindsUnset ==
  BlindsDone =>
    LET sb == fnResult.v.smallBlindSeat
        bb == fnResult.v.bigBlindSeat
    IN  /\ (fnArgs.dealerSeat = Null \/ fnArgs.seats = {})
             => (sb = Null /\ bb = Null)
        /\ (fnArgs.dealerSeat # Null /\ fnArgs.seats # {}) =>
             /\ sb = Null <=> ~OccupiedWithinLap(fnArgs.dealerSeat.n)
             /\ sb # Null => (bb = Null <=> ~OccupiedWithinLap(sb.n))
        /\ sb = Null => bb = Null

C16_Witness ==
  /\ BlindsDone
  /\ fnArgs.dealerSeat = Num(1) /\ fnArgs.seats = {4, 5}
  /\ fnArgs.maxSeats = 3
  /\ fnResult.v = [smallBlindSeat |-> Null, bigBlindSeat |-> Null]
  /\ fnLocals.sbProbes = 3

\* C17: computeBlindSeats terminates for every dealer seat, player list and
\* capacity, with at most capacity probes for the small blind and at most
\* capacity probes for the big blind.
C17_ProbesBounded ==
  (fnArgs.fn = "computeBlindSeats" /\ fnPc # "ready" /\ fnLocals # NoLocals) =>
    /\ fnLocals.sbProbes <= fnArgs.maxSeats
    /\ fnLocals.bbProbes <= fnArgs.maxSeats

C17_Terminates ==
  /\ []C17_ProbesBounded
  /\ (fnArgs.fn = "computeBlindSeats" /\ fnPc = "ready") ~> BlindsDone

C17_Witness ==
  /\ BlindsDone
  /\ fnArgs.maxSeats = MaxSeats
  /\ fnArgs.seats = {0}
  /\ fnArgs.dealerSeat = Num(0)
  /\ fnLocals.sbProbes = MaxSeats
  /\ fnLocals.bbProbes = MaxSeats

(***************************************************************************)
(* mapTableToUi.                                                           *)
(***************************************************************************)
MappedTable == fnPc = "done" /\ fnArgs.fn = "mapTableToUi"

WireOf(i) == fnArgs.table.players[i]
UiOf(i) == fnResult.v.players[i]

\* C18: every hole card of a player is hidden exactly when the viewer id is
\* not the string of that player's id (all hole cards when there is no
\* viewer id), and no community card is hidden.
C18_HiddenUnlessOwn ==
  MappedTable =>
    /\ Len(fnResult.v.players) = Len(fnArgs.table.players)
    /\ \A i \in 1..Len(fnArgs.table.players) :
         WireOf(i).hole_cards # Null =>
           /\ Len(UiOf(i).cards.a) = Len(WireOf(i).hole_cards.a)
           /\ \A j \in 1..Len(UiOf(i).cards.a) :
                UiOf(i).cards.a[j].hidden
                  <=> (fnArgs.heroPlayerId = Undefined
                         \/ fnArgs.heroPlayerId.s # UiOf(i).id)
    /\ Len(fnResult.v.communityCards) = Len(fnArgs.table.board)
    /\ \A j \in 1..Len(fnResult.v.communityCards) :
         ~fnResult.v.communityCards[j].hidden
    /\ \A i \in 1..Len(fnArgs.table.players) :
         /\ WireOf(i).player_id = 1 => UiOf(i).id = "1"
         /\ WireOf(i).player_id = 10 => UiOf(i).id = "10"

C18_Witness ==
  /\ MappedTable
  /\ fnArgs.heroPlayerId = Str("1")
  /\ Len(fnArgs.table.board) = 3
  /\ Len(fnArgs.table.players) = 2
  /\ WireOf(1).player_id = 1 /\ WireOf(2).player_id = 2
  /\ \A j \in 1..2 : ~UiOf(1).cards.a[j].hidden /\ UiOf(2).cards.a[j].hidden

\* C19: gameState.currentPlayer is the string id of the player whose seat
\* index is current_actor_seat, and the empty string when that seat is null
\* or no player sits there; never the id of a player at another seat.
C19_CurrentPlayerBySeat ==
  MappedTable =>
    LET seat == fnArgs.table.current_actor_seat
        n == Len(fnArgs.table.players)
        at == {i \in 1..n : seat # Null /\ WireOf(i).seat_index = seat.n}
        cur == fnResult.v.gameState.currentPlayer
    IN  /\ at = {} => cur = ""
        /\ at # {} => \E i \in at : cur = UiOf(i).id
        /\ cur # "" => \E i \in at : cur = UiOf(i).id

C19_Witness ==
  /\ MappedTable
  /\ fnArgs.table.current_actor_seat = Num(1)
  /\ Len(fnArgs.table.players) = 3
  /\ WireOf(1).seat_index = 0 /\ WireOf(2).seat_index = 3
  /\ WireOf(3).seat_index = 1
  /\ fnResult.v.gameState.currentPlayer = "2"

\* C20: gameState.currentBet is the largest current_bet of the snapshot's
\* players, and 0 without players: it is some player's current_bet or 0, and
\* no player's current_bet exceeds it; bets 0, 50, 120, 0 give 120.
C20_CurrentBetIsMax ==
  MappedTable =>
    LET n == Len(fnArgs.table.players)
        bet == fnResult.v.gameState.currentBet
    IN  /\ n = 0 => bet = 0
        /\ \A i \in 1..n : WireOf(i).current_bet <= bet
        /\ bet = 0 \/ \E i \in 1..n : WireOf(i).current_bet = bet
        /\ (n = 4 /\ [i \in 1..4 |-> WireOf(i).current_bet] = <<0, 50, 120, 0>>)
             => bet = 120

C20_Witness ==
  /\ MappedTable
  /\ Len(fnArgs.table.players) = 4
  /\ [i \in 1..4 |-> WireOf(i).current_bet] = <<0, 50, 120, 0>>
  /\ fnResult.v.gameState.currentBet = 120

C29_BlindsAreSeatsOfPlayers ==
  /\ BlindsDone =>
       LET sb == fnResult.v.smallBlindSeat
           bb == fnResult.v.bigBlindSeat
           inside == fnArgs.seats \cap (0..(fnArgs.maxSeats - 1))
       IN  /\ sb # Null => sb.n \in fnArgs.seats
           /\ bb # Null => bb.n \in fnArgs.seats
           /\ (fnArgs.dealerSeat # Null /\ Cardinality(inside) >= 2)
                => (sb # Null /\ bb # Null /\ sb # bb)
  /\ MappedTable =>
       LET n == Len(fnArgs.table.players)
           seatsOf == {WireOf(i).seat_index : i \in 1..n}
           unique == Cardinality(seatsOf) = n
           inside == seatsOf \cap (0..(fnArgs.table.max_seats - 1))
           small == {i \in 1..n : UiOf(i).isSmallBlind}
           big == {i \in 1..n : UiOf(i).isBigBlind}
       IN  unique =>
             /\ Cardinality(small) <= 1
             /\ Cardinality(big) <= 1
             /\ Cardinality(inside) >= 2 => small \cap big = {}
             /\ (Cardinality(inside) >= 2 /\ fnArgs.table.dealer_button # Null)
                  => (Cardinality(small) = 1 /\ Cardinality(big) = 1)

C29_Witness ==
  /\ MappedTable
  /\ fnArgs.table.dealer_button = Num(3)
  /\ Len(fnArgs.table.players) = 3
  /\ WireOf(1).seat_index = 0 /\ WireOf(2).seat_index = 1
  /\ WireOf(3).seat_index = 3
  /\ UiOf(1).isSmallBlind /\ ~UiOf(1).isBigBlind
  /\ UiOf(2).isBigBlind /\ ~UiOf(2).isSmallBlind
  /\ UiOf(3).isDealer

(***************************************************************************)
(* getBackend of lineraWallet.ts: whose memo a failure handler clears.     *)
(***************************************************************************)

\* C26: the handler of a failed attempt clears only its own memo entry: when
\* it runs, backendPromise refers to that attempt, never to a newer attempt
\* that is in flight or has succeeded.
C26_HandlerClearsOwnMemo ==
  [][/\ \A i \in AttemptIds :
          (attempts[i].memo = "pending" /\ attempts'[i].memo = "rejected")
            => backendPromise = i
     /\ (backendPromise # 0 /\ backendPromise' = 0)
          => attempts[backendPromise].cb = "rejected"]_vars

C26_Witness ==
  /\ attempts[1].memo = "rejected" /\ attempts[1].err = "timeout"
  /\ backendPromise = 2
  /\ attempts[2].memo = "fulfilled"

(***************************************************************************)
(* LandingPage.handlePlayTournament.                                       *)
(***************************************************************************)

\* C30: the page navigates to the lobby only once getBackend has resolved
\* with a handle; when getBackend rejects there is no navigation and the
\* error message is set; the connecting flag is false when the handler
\* finishes; and a call made while the flag is true starts no further
\* getBackend call, so at most one handler is ever waiting.
C30_Connecting ==
  /\ landing.pending <= 1
  /\ landing.isConnecting <=> landing.pending = 1

C30_NavigateAfterHandle ==
  /\ []C30_Connecting
  /\ [][/\ (route = "landing" /\ route' = "lobby")
             => clientBackendPromise = "fulfilled"
        /\ landing'.pending < landing.pending =>
             /\ ~landing'.isConnecting
             /\ clientBackendPromise = "rejected" =>
                  (route' = route /\ landing'.errorMessage # "null")
             /\ clientBackendPromise = "fulfilled" => route' = "lobby"]_vars

C30_Witness ==
  /\ route = "lobby"
  /\ clientBackendPromise = "fulfilled"
  /\ landing = [isConnecting |-> FALSE, errorMessage |-> "null", pending |-> 0]

(***************************************************************************)
(* TablePage.handleSendAction: the translation of the button.              *)
(***************************************************************************)
ActionSent == fnPc = "done" /\ fnArgs.fn = "handleSendAction"

\* C21: check-or-call becomes the wire action "call" when the current bet of
\* the held view model is greater than zero and "check" when it is zero;
\* never raise, bet, fold or all-in; and it carries no amount.
C21_CheckOrCall ==
  (ActionSent /\ fnArgs.kind = "check_or_call") =>
    /\ fnResult.k = "sent"
    /\ fnArgs.currentBet > 0 =>
         (fnResult.wire.action = "call" /\ fnResult.variables.action = "Call")
    /\ fnArgs.currentBet = 0 =>
         (fnResult.wire.action = "check" /\ fnResult.variables.action = "Check")
    /\ fnResult.wire.action \notin {"raise", "bet", "fold", "all_in"}
    /\ fnResult.wire.amount = Undefined
    /\ fnResult.variables.amount = Null

C21_Witness ==
  /\ ActionSent
  /\ fnArgs.kind = "check_or_call" /\ fnArgs.currentBet = 120
  /\ fnArgs.betAmount = "50"
  /\ fnResult.variables = [tableId |-> "t1", action |-> "Call", amount |-> Null]

LoadSucceeded == lastEvent.op = "loadTable" /\ lastEvent.outcome = "ok"

\* One snapshot of each kind, and the view model of the second.
QuietTable == CHOOSE t \in PageTables : Len(t.players) = 1
BettingTable == CHOOSE t \in PageTables : Len(t.players) = 2

\* C24: after every successful loadTable the view model held is exactly
\* mapTableToUi of the snapshot that fetch returned for the page's player,
\* or null when the service returned no table; nothing of the view model
\* held before is carried over.
C24_ViewIsLastFetch ==
  LoadSucceeded =>
    /\ lastEvent.onchain = Null => uiView = Null
    /\ lastEvent.onchain # Null =>
         uiView = mapTableToUi(lastEvent.onchain, Str("1"))

\* A load found no table while the view model of a table with a bet was
\* held.
C24_Witness ==
  /\ LoadSucceeded
  /\ lastEvent.before = mapTableToUi(BettingTable, Str("1"))
  /\ lastEvent.onchain = Null
  /\ uiView = Null

\* C25: when loadTable calls overlap, the view model held is the one of the
\* call issued last among those that delivered one; the response of a call
\* issued earlier, arriving later, never overwrites it.
C25_LastIssuedWins == loadOrder.newest > 0 => uiView = loadOrder.view

\* C27: the loading flag is true in every state in which a loadTable fetch
\* is in flight and false when none is, overlapping calls included.
C27_LoadingWhileInFlight == loading = (loadsInFlight # {})

PageFailed == "outcome" \in DOMAIN lastEvent /\ lastEvent.outcome = "failed"

\* C28: when the fetch of loadTable fails, or the mutation of
\* handleSendAction fails by a transport error or an ok=false ack, the view
\* model held before is unchanged, the error state is the failure's message
\* and the busy flag of that operation is false afterwards.
C28_FailureKeepsView ==
  [][ PageFailed' =>
        /\ uiView' = uiView
        /\ pageError' = Str(lastEvent'.message)
        /\ lastEvent'.op = "loadTable" => loading' = FALSE
        /\ lastEvent'.op = "handleSendAction" => commandLoading' = FALSE ]_vars

\* The mutation was refused by an ack with ok = false while a view model of
\* a table with a bet was held.
C28_Witness ==
  /\ lastEvent = [op |-> "handleSendAction", outcome |-> "failed",
                  message |-> "Not your turn"]
  /\ uiView = mapTableToUi(BettingTable, Str("1"))
  /\ pageError = Str("Not your turn")
  /\ ~commandLoading

====
